---- MODULE Spec2Model ----
(***************************************************************************)
(* Model of the macOS multiboot creator: the orchestrator main() of        *)
(* main.py with the disk, partitioning and media-writing operations it     *)
(* sequences, and the size calculator of utils/size.py.                    *)
(*                                                                         *)
(* One run of main() is a sequential program; pc is its position.  The     *)
(* outcome of every external command, prompt and file-system query is an   *)
(* input chosen with \E where the code observes it.  events is the history *)
(* of what the run has done (commands dispatched and exited, calls made),  *)
(* in order; it is what the ordering properties are stated on.             *)
(***************************************************************************)
EXTENDS Integers, Naturals, Sequences, FiniteSets, TLC

(***************************************************************************)
(* core/config.py                                                          *)
(***************************************************************************)
MARGIN_SIZE_MB == 500
BYTES_PER_KB == 1024
BYTES_PER_MB == BYTES_PER_KB * 1024
BYTES_PER_GB == BYTES_PER_MB * 1024

(***************************************************************************)
(* Byte counts.  Python integers are unbounded, and real installers are    *)
(* larger than 2^31 bytes, so a byte count n is held exactly as the pair   *)
(* [gb, rem] with n = gb * BYTES_PER_GB + rem and 0 <= rem < BYTES_PER_GB. *)
(***************************************************************************)
Bytes(g, r) == [gb |-> g, rem |-> r]

MB(n) == Bytes(n \div 1024, (n % 1024) * BYTES_PER_MB)

GB(n) == Bytes(n, 0)

BNorm(g, r) == Bytes(g + (r \div BYTES_PER_GB), r % BYTES_PER_GB)

BAdd(a, b) == BNorm(a.gb + b.gb, a.rem + b.rem)

BGreater(a, b) == (a.gb > b.gb) \/ (a.gb = b.gb /\ a.rem > b.rem)

BLeq(a, b) == ~BGreater(a, b)

RECURSIVE BSum(_)
BSum(s) == IF s = <<>> THEN Bytes(0, 0) ELSE BAdd(Head(s), BSum(Tail(s)))

(***************************************************************************)
(* utils/size.py                                                           *)
(***************************************************************************)
calculate_size_with_margin(size_bytes) ==
    BAdd(size_bytes, Bytes(0, MARGIN_SIZE_MB * BYTES_PER_MB))

\* Variant: int(size_gb), the margined size rounded down to whole GB.
calculate_partition_size_bytes_truncated(size_bytes) ==
    Bytes(calculate_size_with_margin(size_bytes).gb, 0)

\* Variant: the ceiling, which leaves an exact GB multiple as it is.
calculate_partition_size_bytes_ceil(size_bytes) ==
    LET size_with_margin == calculate_size_with_margin(size_bytes)
    IN  IF size_with_margin.rem = 0
        THEN size_with_margin
        ELSE Bytes(size_with_margin.gb + 1, 0)

\* size_gb = size_with_margin / BYTES_PER_GB is a float division by a power
\* of two, exact for every size below 2^53 bytes; int(size_gb + 1) truncates.
calculate_partition_size_bytes(size_bytes) ==
    LET size_with_margin == calculate_size_with_margin(size_bytes)
    IN  Bytes(size_with_margin.gb + 1, 0)

\* Variant: f"{int(size_gb)}G", without the + 1.
format_size_for_diskutil_floor_gb(size_bytes) ==
    LET size_with_margin == calculate_size_with_margin(size_bytes)
    IN  IF size_with_margin.gb < 1
        THEN [n |-> size_with_margin.rem \div BYTES_PER_MB, unit |-> "M"]
        ELSE [n |-> size_with_margin.gb, unit |-> "G"]

\* The token is [n, unit]: "<n>M" or "<n>G".  int(size_mb) and int(size_gb)
\* truncate.
format_size_for_diskutil(size_bytes) ==
    LET size_with_margin == calculate_size_with_margin(size_bytes)
    IN  IF size_with_margin.gb < 1
        THEN [n |-> size_with_margin.rem \div BYTES_PER_MB, unit |-> "M"]
        ELSE [n |-> size_with_margin.gb + 1, unit |-> "G"]

(***************************************************************************)
(* installer/finder.py                                                     *)
(***************************************************************************)
calculate_total_space_needed(insts) ==
    BSum([i \in 1..Len(insts) |-> calculate_size_with_margin(insts[i].size_bytes)])

(***************************************************************************)
(* Bounds of the model and the inputs drawn within them.                   *)
(***************************************************************************)
MaxInstallers == 2

\* Measured bundle sizes: 100 MB and 600 MB (partitions of 1 GB and 2 GB).
InstallerSizeChoices == {MB(100), MB(600)}

\* TotalSize of the target disk: 1800 MB and 500 GB.
DiskSizeChoices == {MB(1800), GB(500)}

\* InstallerInfo lists as find_installers returns them: entry i is the i-th
\* catalog entry found (name |-> i, volume |-> its volume label), with its
\* measured size.
InstallerLists ==
    UNION { [1..n -> InstallerSizeChoices] : n \in 1..MaxInstallers }

InstallerInfo(sizes) ==
    [i \in 1..Len(sizes) |->
        [name |-> i, volume |-> <<"Install", i>>, size_bytes |-> sizes[i]]]

\* What the operator may type at a confirmation prompt.
Replies == {"YES", "yes", ""}

\* Exit codes an external command may end with.
ReturnCodes == {0, 1}

(***************************************************************************)
(* State                                                                   *)
(***************************************************************************)
VARIABLES
    pc,                   \* position of the main thread
    exit_status,          \* the process's exit status, once pc = "exited"
    exc,                  \* the exception propagating to main's except clauses
    handler,              \* the except clause that is running
    installers,           \* main: installers
    target_disk,          \* main: target_disk ("None" until a disk is chosen)
    partitioning_started, \* main: partitioning_started
    idx,                  \* create_install_media: index of the current installer
    verification_result,  \* create_install_media: verification_result
    app_installers,       \* the bundles present in the application directory
    disk_total,           \* TotalSize of the disk the operator will choose
    disk_total_valid,     \* whether the metadata's TotalSize is a number
    disk_internal,        \* Internal flag of that disk
    running,              \* external commands dispatched and not yet exited
    events,               \* history of the run, oldest first
    size_bytes,           \* utils/size.py applied alone: the sizes passed
    partition_size,       \* what calculate_partition_size_bytes returned
    size_token,           \* what format_size_for_diskutil returned
    validation,           \* how validate_partition_sizes ended
    partition_cmd,        \* partition_disk: partition_cmd
    progress_percent,     \* ProgressBar: progress_percent[0]
    progress_message,     \* ProgressBar: progress_message[0]
    animation_running,    \* ProgressBar: animation_running is set
    elapsed,              \* time.time() - start_time, in seconds
    anim_pc,              \* position of the animation thread (show_progress)
    percent,              \* show_progress: percent
    shown,                \* the frame on the terminal: its percent and message
    app_dir,              \* find_installers: names of app_path.iterdir(), as listed
    not_dirs,             \* names in app_dir that are not directories
    entry,                \* find_installers: index in TARGET_OS of the loop
    found,                \* find_installers: found
    tool_output,          \* lines the external tool writes before it exits
    emitted,              \* lines it has written so far
    pipe,                 \* process.stdout: lines written and not yet read
    process_exited,       \* the external process has exited
    process_returncode,           \* process.returncode
    output_lines,         \* run_command_with_progress: output_lines
    parsed,               \* lines handed to ProgressBar.parse_line, in order
    reader_pc,            \* position of the output thread (read_output)
    reader_line,          \* read_output: line
    stored_percent,       \* update: self.progress_percent[0] as read at line 104
    error_output,         \* partition_disk: error_output
    stdout_lock,          \* holder of progress._stdout_lock
    writes                \* terminal writes made so far

vars == <<pc, exit_status, exc, handler, installers, target_disk,
          partitioning_started, idx, verification_result, app_installers,
          disk_total, disk_total_valid, disk_internal, running, events,
          size_bytes, partition_size, size_token, validation, partition_cmd,
          progress_percent, progress_message, animation_running, elapsed,
          anim_pc, percent, shown, app_dir, not_dirs, entry, found,
          tool_output, emitted, pipe, process_exited, process_returncode, output_lines,
          parsed, reader_pc, reader_line, stored_percent, error_output, stdout_lock, writes>>

locals == <<installers, target_disk, partitioning_started>>
media == <<idx, verification_result>>
\* The size calculator and the partition layout, when they are exercised on
\* their own inputs (SizeSpec, LayoutSpec)
calc == <<size_bytes, partition_size, size_token, validation, partition_cmd>>
\* One ProgressBar with its animation thread, when it is followed on its own
\* (ProgressSpec)
monitor == <<progress_percent, progress_message, animation_running, elapsed,
             anim_pc, percent, shown>>
\* find_installers, when it is followed on its own (FinderSpec)
finder == <<app_dir, not_dirs, entry, found>>
\* One command run through run_command_with_progress, when it is followed on
\* its own with its threads (CommandSpec)
command == <<tool_output, emitted, pipe, process_exited, process_returncode, output_lines,
             parsed, reader_pc, reader_line, stored_percent, error_output, stdout_lock,
             writes>>
\* What no step of main changes
env == <<app_installers, disk_total, disk_total_valid, disk_internal, calc, monitor,
         finder, command>>
ctl == <<exit_status, exc, handler>>

BoolInt(b) == IF b THEN 1 ELSE 0

Ev(e, w, i, x) == [ev |-> e, what |-> w, k |-> i, v |-> x]

Emit(s) == events' = events \o s

Goto(l) == pc' = l

\* raise e: control passes to the except clauses of main (main.py:112-154).
Raise(e) == pc' = "except" /\ exc' = e /\ UNCHANGED <<exit_status, handler>>

\* sys.exit(n) or an uncaught exception: the process ends.
Exit(n) == pc' = "exited" /\ exit_status' = n /\ UNCHANGED <<exc, handler>>

Step(l) == Goto(l) /\ UNCHANGED ctl

CalcIdle ==
    /\ size_bytes = <<>>
    /\ partition_size = <<>>
    /\ size_token = <<>>
    /\ validation = [disk_info |-> "none", result |-> "none"]
    /\ partition_cmd = [argv |-> <<>>, partitions |-> <<>>]

\* No frame has been written yet
NoFrame == [percent |-> -1, message |-> "none"]

\* No ProgressBar is followed
MonitorIdle ==
    /\ progress_percent = 0
    /\ progress_message = "none"
    /\ animation_running = FALSE
    /\ elapsed = 0
    /\ anim_pc = "none"
    /\ percent = 0
    /\ shown = NoFrame

\* No directory is being scanned
FinderIdle ==
    /\ app_dir = <<>>
    /\ not_dirs = {}
    /\ entry = 0
    /\ found = <<>>

NoLine == [n |-> 0, text |-> "none"]

\* No command is followed
CommandIdle ==
    /\ tool_output = <<>>
    /\ emitted = 0
    /\ pipe = <<>>
    /\ process_exited = FALSE
    /\ process_returncode = 0
    /\ output_lines = <<>>
    /\ parsed = <<>>
    /\ reader_pc = "none"
    /\ reader_line = NoLine
    /\ stored_percent = 0
    /\ error_output = <<>>
    /\ stdout_lock = "none"
    /\ writes = {}

Init ==
    /\ pc = "find_installers"
    /\ exit_status = 0
    /\ exc = "none"
    /\ handler = "none"
    /\ installers = <<>>
    /\ target_disk = "None"
    /\ partitioning_started = FALSE
    /\ idx = 0
    /\ verification_result = FALSE
    /\ app_installers \in {InstallerInfo(l) : l \in InstallerLists} \cup {<<>>}
    /\ disk_total \in DiskSizeChoices
    /\ disk_total_valid \in BOOLEAN
    \* a TotalSize that is not a number has no size: one value stands for it
    /\ disk_total_valid \/ disk_total = GB(500)
    \* on the 500 GB disk every list fits with room to spare and the sizes
    \* decide nothing: one size stands for them
    /\ disk_total = GB(500) =>
          \A i \in DOMAIN app_installers : app_installers[i].size_bytes = MB(600)
    /\ disk_internal \in BOOLEAN
    /\ running = {}
    /\ events = <<>>
    /\ CalcIdle
    /\ MonitorIdle
    /\ FinderIdle
    /\ CommandIdle

(***************************************************************************)
(* disk/detection.py: its operations are modelled at their interface, as   *)
(* the specification describes them (sections 4.5 and 6).                  *)
(***************************************************************************)
\* A query of the disk's metadata succeeds or fails with one of the runner's
\* and parser's errors.
DiskInfoErrors == {"CommandError", "CommandNotFoundError", "PlistParseError"}

QueryOutcomes == {"ok"} \cup DiskInfoErrors

\* get_disk_info on the query's outcome q: the error, "ok", or "malformed" for
\* metadata whose TotalSize is not a number.
get_disk_info(q) == IF q = "ok" /\ ~disk_total_valid THEN "malformed" ELSE q

\* main.py:93  disks = list_external_disks()
list_external_disks ==
    /\ pc = "list_external_disks"
    /\ \E r \in {"ok"} \cup DiskInfoErrors :
          IF r = "ok" THEN Step("select_disk") ELSE Raise(r)
    /\ UNCHANGED <<locals, media, env, running, events>>

\* main.py:94  target_disk = select_disk(disks): no candidate, or no valid
\* choice within the retries of prompt_with_retry, ends the process.
select_disk ==
    /\ pc = "select_disk"
    /\ \E chosen \in BOOLEAN :
          IF chosen
          THEN /\ target_disk' = "disk"
               /\ Step("verify_disk_safety")
          ELSE /\ Exit(1)
               /\ UNCHANGED target_disk
    /\ UNCHANGED <<installers, partitioning_started, media, env, running, events>>

\* main.py:99  check_disk_space(target_disk, total_needed_bytes)
check_disk_space ==
    /\ pc = "check_disk_space"
    /\ \E q \in QueryOutcomes :
          LET r == get_disk_info(q)
          IN
          CASE r \in DiskInfoErrors -> Raise(r)
            [] r = "ok" /\ BGreater(calculate_total_space_needed(installers), disk_total)
                        -> Exit(1)
            [] OTHER    -> Step("confirm_disk_erasure")
    /\ UNCHANGED <<locals, media, env, running, events>>

(***************************************************************************)
(* installer/finder.py: main.py:90                                         *)
(***************************************************************************)
find_installers ==
    /\ pc = "find_installers"
    /\ \E listable \in BOOLEAN :
          IF listable /\ app_installers # <<>>
          THEN /\ installers' = app_installers
               /\ Step("list_external_disks")
          ELSE /\ Exit(1)
               /\ UNCHANGED installers
    /\ UNCHANGED <<target_disk, partitioning_started, media, env, running, events>>

(***************************************************************************)
(* disk/management.py                                                      *)
(***************************************************************************)
\* verify_disk_safety (management.py:105-132).  The prompt is shown when the
\* metadata could be read and carries Internal; the reply is recorded with
\* whether it is exactly "YES".  Unreadable metadata is a warning only.
SafetyPrompt(confirm_internal) ==
    Ev("prompt", "verify_disk_safety", 0, BoolInt(confirm_internal = "YES"))

verify_disk_safety_any_case ==
    /\ pc = "verify_disk_safety"
    /\ \E q \in QueryOutcomes, confirm_internal \in Replies :
          IF get_disk_info(q) \notin DiskInfoErrors /\ disk_internal
          THEN /\ Emit(<<SafetyPrompt(confirm_internal)>>)
               /\ IF confirm_internal \notin {"YES", "yes"}
                  THEN Exit(0)
                  ELSE Step("check_disk_space")
          ELSE /\ Step("check_disk_space")
               /\ UNCHANGED events
    /\ UNCHANGED <<locals, media, env, running>>

verify_disk_safety ==
    /\ pc = "verify_disk_safety"
    /\ \E q \in QueryOutcomes, confirm_internal \in Replies :
          IF get_disk_info(q) \notin DiskInfoErrors /\ disk_internal
          THEN /\ Emit(<<SafetyPrompt(confirm_internal)>>)
               /\ IF confirm_internal # "YES"
                  THEN Exit(0)
                  ELSE Step("check_disk_space")
          ELSE /\ Step("check_disk_space")
               /\ UNCHANGED events
    /\ UNCHANGED <<locals, media, env, running>>

\* A confirmation that accepts the answer in any case of letters
confirm_disk_erasure_any_case ==
    /\ pc = "confirm_disk_erasure"
    /\ \E confirm \in Replies :
          /\ Emit(<<Ev("prompt", "confirm_disk_erasure", 0, BoolInt(confirm = "YES"))>>)
          /\ IF confirm \notin {"YES", "yes"} THEN Exit(0) ELSE Step("unmount_disk")
    /\ UNCHANGED <<locals, media, env, running>>

\* confirm_disk_erasure (management.py:135-153) and main.py:101-102; the
\* reply is recorded with whether it is exactly "YES".
confirm_disk_erasure ==
    /\ pc = "confirm_disk_erasure"
    /\ \E confirm \in Replies :
          /\ Emit(<<Ev("prompt", "confirm_disk_erasure", 0, BoolInt(confirm = "YES"))>>)
          /\ IF confirm # "YES" THEN Exit(0) ELSE Step("unmount_disk")
    /\ UNCHANGED <<locals, media, env, running>>

\* Outcomes of run_command(["diskutil", "unmountDisk", ...]) (commands.py:95-131):
\* success, CommandError whose text carries "in use by process" or "Couldn't
\* unmount" or neither, CommandNotFoundError, or an OSError that
\* subprocess.run raises and run_command does not map.
UnmountOutcomes ==
    {"ok", "in_use_by_process", "couldnt_unmount", "other_failure", "not_found", "os_error"}

\* Variant: only the "in use by process" text is fatal.
unmount_disk_result_in_use_only(r) ==
    CASE r = "ok"                -> "return"
      [] r = "in_use_by_process" -> "CommandError"
      [] r = "couldnt_unmount"   -> "return"
      [] r = "other_failure"     -> "return"
      [] r = "not_found"         -> "CommandNotFoundError"
      [] r = "os_error"          -> "OSError"

\* What unmount_disk does with an outcome (management.py:40-102): "return",
\* or the exception it lets out.
unmount_disk_result(r) ==
    CASE r = "ok"                -> "return"
      [] r = "in_use_by_process" -> "CommandError"
      [] r = "couldnt_unmount"   -> "CommandError"
      [] r = "other_failure"     -> "return"
      [] r = "not_found"         -> "CommandNotFoundError"
      [] r = "os_error"          -> "OSError"

\* The command's failures that reach the except clause of management.py:58
UnmountFailures == {"in_use_by_process", "couldnt_unmount", "other_failure"}

\* The history of one call of unmount_disk by main (caller 0) or restore_disk
\* (caller 1): the command, and for a failed command its failure text with
\* whether unmount_disk raised on it.
UnmountEvents(r, caller) ==
    << Ev("dispatch", "unmountDisk", caller, 0),
       Ev(IF r \in {"not_found", "os_error"} THEN "start_failed" ELSE "exit",
          "unmountDisk", caller, IF r = "ok" THEN 0 ELSE 1) >>
    \o (IF r \in UnmountFailures
        THEN <<Ev("unmount_failed", r, caller,
                  BoolInt(unmount_disk_result(r) # "return"))>>
        ELSE <<>>)

\* main.py:104  unmount_disk(target_disk)
unmount_disk ==
    /\ pc = "unmount_disk"
    /\ \E r \in UnmountOutcomes :
          /\ Emit(UnmountEvents(r, 0))
          /\ IF unmount_disk_result(r) = "return"
             THEN Step("partitioning_started")
             ELSE Raise(unmount_disk_result(r))
    /\ UNCHANGED <<locals, media, env, running>>

\* main.py:105  partitioning_started = True
set_partitioning_started ==
    /\ pc = "partitioning_started"
    /\ partitioning_started' = TRUE
    /\ Step("validate_partition_sizes")
    /\ UNCHANGED <<installers, target_disk, media, env, running, events>>

(***************************************************************************)
(* disk/partitioning.py                                                    *)
(***************************************************************************)
\* installers[:-1]
AllButLast(insts) == SubSeq(insts, 1, Len(insts) - 1)

\* Variant: the sum runs over every installer, the last included.
total_needed_bytes_with_last(insts) ==
    BSum([i \in 1..Len(insts) |->
             calculate_partition_size_bytes(insts[i].size_bytes)])

\* total_needed_bytes (partitioning.py:37-40)
total_needed_bytes(insts) ==
    BSum([i \in 1..Len(AllButLast(insts)) |->
             calculate_partition_size_bytes(insts[i].size_bytes)])

\* Variant: the comparison is >= and an exact fit is refused.
validate_partition_sizes_inclusive(r, disk_size_bytes, insts) ==
    CASE r \in DiskInfoErrors -> r
      [] r = "malformed"      -> "return"
      [] r = "ok" ->
            IF BLeq(disk_size_bytes, total_needed_bytes(insts))
            THEN "ValueError"
            ELSE "return"

\* validate_partition_sizes (partitioning.py:21-62) on the outcome r of
\* get_disk_info: "return", or the exception it lets out.  A TotalSize that is
\* not a number raises TypeError at line 42, which line 61 catches.
validate_partition_sizes(r, disk_size_bytes, insts) ==
    CASE r \in DiskInfoErrors -> r
      [] r = "malformed"      -> "return"
      [] r = "ok" ->
            IF BGreater(total_needed_bytes(insts), disk_size_bytes)
            THEN "ValueError"
            ELSE "return"

\* The remaining-space marker given to the last partition
RemainingSpace == [n |-> 0, unit |-> "b"]

\* Variant: the first partition, not the last, takes the remaining space.
partition_cmd_for_first_rest(disk, insts) ==
    [argv |-> <<"diskutil", "partitionDisk", disk, "GPT">>,
     partitions |->
        [i \in 1..Len(insts) |->
            [fs |-> "JHFS+",
             volume |-> insts[i].volume,
             size |-> IF i = 1
                      THEN RemainingSpace
                      ELSE format_size_for_diskutil(insts[i].size_bytes)]]]

\* Variant: the size token is the bundle's own size in whole GB, no margin.
partition_cmd_for_unmargined(disk, insts) ==
    [argv |-> <<"diskutil", "partitionDisk", disk, "GPT">>,
     partitions |->
        [i \in 1..Len(insts) |->
            [fs |-> "JHFS+",
             volume |-> insts[i].volume,
             size |-> IF i = Len(insts)
                      THEN RemainingSpace
                      ELSE [n |-> insts[i].size_bytes.gb, unit |-> "G"]]]]

\* partition_cmd as partitioning.py:105-131 builds it: argv is its first four
\* words, partitions the (filesystem, volume label, size token) triples that
\* follow, one per pass of the loop.
partition_cmd_for(disk, insts) ==
    [argv |-> <<"diskutil", "partitionDisk", disk, "GPT">>,
     partitions |->
        [i \in 1..Len(insts) |->
            [fs |-> "JHFS+",
             volume |-> insts[i].volume,
             size |-> IF i = Len(insts)
                      THEN RemainingSpace
                      ELSE format_size_for_diskutil(insts[i].size_bytes)]]]

\* Variant: the exception of validate_partition_sizes is swallowed and
\* partition_disk goes on.
partition_disk_validate_swallowed ==
    /\ pc = "validate_partition_sizes"
    /\ \E q \in QueryOutcomes :
          LET r == get_disk_info(q)
              res == validate_partition_sizes(r, disk_total, installers)
          IN  IF res = "return"
              THEN Emit(<<Ev("validate_return", r, 0, 0)>>)
              ELSE Emit(<<Ev("validate_raise", res, 0, 0)>>)
    /\ Step("partition_layout")
    /\ UNCHANGED <<locals, media, env, running>>

\* partitioning.py:81  validate_partition_sizes(target_disk, installers)
partition_disk_validate ==
    /\ pc = "validate_partition_sizes"
    /\ \E q \in QueryOutcomes :
          LET r == get_disk_info(q)
              res == validate_partition_sizes(r, disk_total, installers)
          IN  IF res = "return"
              THEN /\ Emit(<<Ev("validate_return", r, 0, 0)>>)
                   /\ Step("partition_layout")
              ELSE /\ Emit(<<Ev("validate_raise", res, 0, 0)>>)
                   /\ Raise(res)
    /\ UNCHANGED <<locals, media, env, running>>

\* partitioning.py:83-135: the remaining-space estimate queries the disk
\* again when there is more than one installer, then the command is built.
partition_disk_layout ==
    /\ pc = "partition_layout"
    /\ IF Len(installers) > 1
       THEN \E q \in QueryOutcomes :
               IF get_disk_info(q) \in DiskInfoErrors
               THEN Raise(get_disk_info(q))
               ELSE Step("partition_dispatch")
       ELSE Step("partition_dispatch")
    /\ UNCHANGED <<locals, media, env, running, events>>

\* run_command_with_progress (progress.py:121-166): subprocess.Popen starts
\* the command, or raises OSError (FileNotFoundError when the executable is
\* not found), which no caller maps to CommandNotFoundError.
PopenOutcomes == {"started", "os_error"}

\* partitioning.py:149-155
partition_disk_dispatch ==
    /\ pc = "partition_dispatch"
    /\ \E r \in PopenOutcomes :
          IF r = "started"
          THEN /\ running' = running \cup {"partitionDisk"}
               /\ Emit(<<Ev("dispatch", "partitionDisk", 0, 0)>>)
               /\ Step("partition_wait")
          ELSE /\ Emit(<<Ev("start_failed", "partitionDisk", 0, 0)>>)
               /\ Raise("OSError")
               /\ UNCHANGED running
    /\ UNCHANGED <<locals, media, env>>

\* Variant: the exit code of the partition command is not looked at.
partition_disk_wait_unchecked ==
    /\ pc = "partition_wait"
    /\ \E returncode \in ReturnCodes :
          /\ running' = running \ {"partitionDisk"}
          /\ Emit(<<Ev("exit", "partitionDisk", 0, returncode)>>)
          /\ Step("create_install_media")
    /\ UNCHANGED <<locals, media, env>>

\* partitioning.py:157-217: wait, then CommandError on a non-zero exit, which
\* the except clause at 202 prints and re-raises.
partition_disk_wait ==
    /\ pc = "partition_wait"
    /\ \E returncode \in ReturnCodes :
          /\ running' = running \ {"partitionDisk"}
          /\ Emit(<<Ev("exit", "partitionDisk", 0, returncode)>>)
          /\ IF returncode # 0
             THEN Raise("CommandError")
             ELSE Step("create_install_media")
    /\ UNCHANGED <<locals, media, env>>

(***************************************************************************)
(* installer/media.py                                                      *)
(***************************************************************************)
RaiseInstallationError ==
    /\ Emit(<<Ev("raise", "InstallationError", idx, 0)>>)
    /\ Raise("InstallationError")

\* media.py:128-132: entry, first iteration of the loop
create_install_media ==
    /\ pc = "create_install_media"
    /\ idx' = 1
    /\ Emit(<<Ev("call", "create_install_media", 0, 0)>>)
    /\ Step("media_tool_check")
    /\ UNCHANGED <<locals, verification_result, env, running>>

\* media.py:133-154: the tool exists and is executable
media_tool_check ==
    /\ pc = "media_tool_check"
    /\ \E tool \in {"ok", "missing", "not_executable", "stat_error"} :
          IF tool = "ok"
          THEN /\ Step("wait_for_volume")
               /\ UNCHANGED events
          ELSE RaiseInstallationError
    /\ UNCHANGED <<locals, media, env, running>>

\* Variant: after a volume-wait timeout the loop goes on with the next
\* installer instead of leaving create_install_media.
media_wait_for_volume_continues ==
    /\ pc = "wait_for_volume"
    /\ \E mounted \in BOOLEAN :
          IF mounted
          THEN /\ Emit(<<Ev("wait_for_volume", "volume", idx, 1)>>)
               /\ Step("find_volume_path")
               /\ UNCHANGED idx
          ELSE /\ Emit(<<Ev("wait_for_volume", "volume", idx, 0),
                         Ev("raise", "InstallationError", idx, 0)>>)
               /\ IF idx < Len(installers)
                  THEN idx' = idx + 1 /\ Step("media_tool_check")
                  ELSE UNCHANGED idx /\ Raise("InstallationError")
    /\ UNCHANGED <<locals, verification_result, env, running>>

\* wait_for_volume (disk/detection.py): a poll bounded by
\* MAX_VOLUME_WAIT_TIME that returns whether the volume is mounted and never
\* raises
wait_for_volume_results == BOOLEAN

\* A volume wait with no timeout: while the volume is not mounted the poll
\* goes on and main stays in it.
media_wait_for_volume_unbounded ==
    /\ pc = "wait_for_volume"
    /\ \E mounted \in BOOLEAN :
          IF mounted
          THEN /\ Emit(<<Ev("wait_for_volume", "volume", idx, 1)>>)
               /\ Step("find_volume_path")
          ELSE /\ Emit(<<Ev("wait_for_volume", "volume", idx, 0)>>)
               /\ Step("wait_for_volume_polling")
    /\ UNCHANGED <<locals, media, env, running>>

\* media.py:159-169: wait_for_volume returns whether the volume mounted
\* within MAX_VOLUME_WAIT_TIME
media_wait_for_volume ==
    /\ pc = "wait_for_volume"
    /\ \E mounted \in wait_for_volume_results :
          IF mounted
          THEN /\ Emit(<<Ev("wait_for_volume", "volume", idx, 1)>>)
               /\ Step("find_volume_path")
          ELSE /\ Emit(<<Ev("wait_for_volume", "volume", idx, 0),
                         Ev("raise", "InstallationError", idx, 0)>>)
               /\ Raise("InstallationError")
    /\ UNCHANGED <<locals, media, env, running>>

\* media.py:171-185: the volume's real path
media_find_volume_path ==
    /\ pc = "find_volume_path"
    /\ \E r \in {"ok", "not_found", "not_accessible"} :
          IF r = "ok"
          THEN /\ Step("media_dispatch")
               /\ UNCHANGED events
          ELSE RaiseInstallationError
    /\ UNCHANGED <<locals, media, env, running>>

\* media.py:211-217
media_dispatch ==
    /\ pc = "media_dispatch"
    /\ \E r \in PopenOutcomes :
          IF r = "started"
          THEN /\ running' = running \cup {"createinstallmedia"}
               /\ Emit(<<Ev("dispatch", "createinstallmedia", idx, 0)>>)
               /\ Step("media_wait")
          ELSE /\ Emit(<<Ev("start_failed", "createinstallmedia", idx, 0)>>)
               /\ Raise("OSError")
               /\ UNCHANGED running
    /\ UNCHANGED <<locals, media, env>>

\* media.py:219-227 and 301-323: a non-zero exit raises CalledProcessError,
\* which the except clause turns into InstallationError
media_wait ==
    /\ pc = "media_wait"
    /\ \E returncode \in ReturnCodes :
          /\ running' = running \ {"createinstallmedia"}
          /\ IF returncode # 0
             THEN /\ Emit(<<Ev("exit", "createinstallmedia", idx, returncode),
                            Ev("raise", "InstallationError", idx, 0)>>)
                  /\ Raise("InstallationError")
             ELSE /\ Emit(<<Ev("exit", "createinstallmedia", idx, returncode)>>)
                  /\ Step("media_verify")
    /\ UNCHANGED <<locals, media, env>>


\* media.py:263-265: first verification
media_verify ==
    /\ pc = "media_verify"
    /\ \E ok \in BOOLEAN :
          /\ verification_result' = ok
          /\ Emit(<<Ev("verify", "first", idx, BoolInt(ok))>>)
    /\ Step("media_verify_retry")
    /\ UNCHANGED <<locals, idx, env, running>>

\* Variant: the second verification runs whatever the first returned.
media_verify_retry_unconditional ==
    /\ pc = "media_verify_retry"
    /\ \E ok \in BOOLEAN :
          /\ verification_result' = ok
          /\ Emit(<<Ev("verify", "retry", idx, BoolInt(ok))>>)
    /\ Step("media_verify_check")
    /\ UNCHANGED <<locals, idx, env, running>>

\* media.py:267-272: one more verification if the first returned False
media_verify_retry ==
    /\ pc = "media_verify_retry"
    /\ IF ~verification_result
       THEN \E ok \in BOOLEAN :
               /\ verification_result' = ok
               /\ Emit(<<Ev("verify", "retry", idx, BoolInt(ok))>>)
       ELSE UNCHANGED <<verification_result, events>>
    /\ Step("media_verify_check")
    /\ UNCHANGED <<locals, idx, env, running>>

\* Variant: the result of the verification is not looked at.
media_verify_check_unchecked ==
    /\ pc = "media_verify_check"
    /\ Emit(<<Ev("written", "installer", idx, 0)>>)
    /\ IF idx < Len(installers)
       THEN idx' = idx + 1 /\ Step("media_tool_check")
       ELSE UNCHANGED idx /\ Step("success")
    /\ UNCHANGED <<locals, verification_result, env, running>>

\* media.py:283, 296: print(t("install_media.error_for_installer", msg=error_msg,
\* name=inst["name"])), where error_msg is install_media.seems_failed (0) or
\* "Impossible de verifier le contenu du volume : ..." (1)
verification_failed_print(msg) == Ev("print", "install_media.error_for_installer", idx, msg)

\* media.py:274-300: after the verification and its retry. When both failed,
\* the volume is listed inside a try block (276-280); if the listing works the
\* diagnostic is printed and InstallationError(name, seems_failed) is raised
\* (281-292) inside that same block, whose "except Exception" (293-297)
\* catches it as it catches an OSError of the listing: the diagnostic is
\* printed with the second message and a new InstallationError is raised.
\* Otherwise the installer is written and the loop goes on (media.py:132).
media_verify_check ==
    /\ pc = "media_verify_check"
    /\ IF ~verification_result
       THEN /\ \E listed \in BOOLEAN :
                  Emit((IF listed THEN <<verification_failed_print(0)>> ELSE <<>>)
                       \o <<verification_failed_print(1),
                            Ev("raise", "InstallationError", idx, 1)>>)
            /\ Raise("InstallationError")
            /\ UNCHANGED idx
       ELSE /\ Emit(<<Ev("written", "installer", idx, 0)>>)
            /\ IF idx < Len(installers)
               THEN idx' = idx + 1 /\ Step("media_tool_check")
               ELSE UNCHANGED idx /\ Step("success")
    /\ UNCHANGED <<locals, verification_result, env, running>>

(***************************************************************************)
(* main.py: success, the except clauses, restore_disk, exit                *)
(***************************************************************************)
\* main.py:110  print(t("main.success")), then main returns
main_success ==
    /\ pc = "success"
    /\ Emit(<<Ev("print", "main.success", 0, 0)>>)
    /\ Exit(0)
    /\ UNCHANGED <<locals, media, env, running>>

\* A cleanup that looks only at the disk
cleanup_disk_if_needed_disk_only == target_disk # "None"

\* cleanup_disk_if_needed (main.py:83-86) calls restore_disk
cleanup_disk_if_needed == partitioning_started /\ target_disk # "None"

\* Variant: the test of _handle_error is inverted.
handle_error_cleanup_inverted == ~partitioning_started

\* _handle_error (main.py:62-63) calls cleanup_func
handle_error_cleanup == partitioning_started

CallRestore ==
    /\ pc' = "restore_unmount"
    /\ Emit(<<Ev("call", "restore_disk", 0, 0)>>)

\* main.py:112-154: the except clause matching exc runs up to its cleanup
main_except ==
    /\ pc = "except"
    /\ UNCHANGED <<exit_status, exc>>
    /\ IF exc = "KeyboardInterrupt"
       THEN /\ handler' = "interrupt"
            /\ IF cleanup_disk_if_needed
               THEN CallRestore
               ELSE pc' = "handler_exit" /\ UNCHANGED events
       ELSE /\ handler' = "error"
            /\ IF handle_error_cleanup /\ cleanup_disk_if_needed
               THEN CallRestore
               ELSE pc' = "handler_exit" /\ UNCHANGED events
    /\ UNCHANGED <<locals, media, env, running>>

\* management.py:171
restore_cmd(disk) == <<"diskutil", "eraseDisk", "ExFAT", "USB_DISK", disk>>

\* A restore_disk that goes on to the erase command whatever unmount_disk did
restore_disk_unmount_then_erase ==
    /\ pc = "restore_unmount"
    /\ \E r \in UnmountOutcomes :
          /\ Emit(UnmountEvents(r, 1))
          /\ Step("restore_dispatch")
    /\ UNCHANGED <<locals, media, env, running>>

\* restore_disk (management.py:167-209): unmount_disk, whose CommandError and
\* CommandNotFoundError the except clause at 204 catches
restore_disk_unmount ==
    /\ pc = "restore_unmount"
    /\ \E r \in UnmountOutcomes :
          LET res == unmount_disk_result(r)
          IN  CASE res = "return" ->
                     /\ Emit(UnmountEvents(r, 1))
                     /\ Step("restore_dispatch")
                [] res \in {"CommandError", "CommandNotFoundError"} ->
                     /\ Emit(UnmountEvents(r, 1) \o <<Ev("return", "restore_disk", 0, 0)>>)
                     /\ Step("handler_exit")
                [] OTHER ->
                     /\ Emit(UnmountEvents(r, 1) \o <<Ev("raise", "restore_disk", 0, 0)>>)
                     /\ Exit(1)
    /\ UNCHANGED <<locals, media, env, running>>

\* management.py:171-190: the erase command is started
restore_disk_dispatch ==
    /\ pc = "restore_dispatch"
    /\ \E r \in PopenOutcomes :
          IF r = "started"
          THEN /\ running' = running \cup {"eraseDisk"}
               /\ Emit(<<Ev("dispatch", restore_cmd(target_disk)[2], 1, 0)>>)
               /\ Step("restore_wait")
          ELSE /\ Emit(<<Ev("start_failed", restore_cmd(target_disk)[2], 1, 0),
                         Ev("raise", "restore_disk", 0, 0)>>)
               /\ Exit(1)
               /\ UNCHANGED running
    /\ UNCHANGED <<locals, media, env>>

\* management.py:192-209: wait; a non-zero exit raises CommandError, caught
restore_disk_wait ==
    /\ pc = "restore_wait"
    /\ \E returncode \in ReturnCodes :
          /\ running' = running \ {"eraseDisk"}
          /\ Emit(<<Ev("exit", "eraseDisk", 1, returncode),
                    Ev("return", "restore_disk", 0, 0)>>)
    /\ Step("handler_exit")
    /\ UNCHANGED <<locals, media, env>>

\* main.py:116 sys.exit(130); main.py:121,130,139,148,154 sys.exit(1)
handler_exit ==
    /\ pc = "handler_exit"
    /\ Exit(IF handler = "interrupt" THEN 130 ELSE 1)
    /\ UNCHANGED <<locals, media, env, running, events>>

\* Positions inside the try block of main (main.py:88-110)
TryPcs ==
    {"find_installers", "list_external_disks", "select_disk", "verify_disk_safety",
     "check_disk_space", "confirm_disk_erasure", "unmount_disk", "partitioning_started",
     "validate_partition_sizes", "partition_layout", "partition_dispatch",
     "partition_wait", "create_install_media", "media_tool_check", "wait_for_volume",
     "find_volume_path", "media_dispatch", "media_wait", "media_verify",
     "media_verify_retry", "media_verify_check", "success"}

\* Positions inside an except clause
HandlerPcs == {"except", "restore_unmount", "restore_dispatch", "restore_wait", "handler_exit"}

\* The operator interrupts the run inside the try block: KeyboardInterrupt
\* is raised in the main thread where it stands (main.py:112).
keyboard_interrupt ==
    /\ pc \in TryPcs
    /\ Emit(<<Ev("interrupt", pc, 0, BoolInt(cleanup_disk_if_needed))>>)
    /\ Raise("KeyboardInterrupt")
    /\ UNCHANGED <<locals, media, env, running>>

\* An interrupt inside an except clause is not caught: the interpreter ends
\* the process as interrupted.
keyboard_interrupt_in_handler ==
    /\ pc \in HandlerPcs
    /\ Emit(<<Ev("interrupt", "handler", 0, 0)>>)
    /\ Exit(130)
    /\ UNCHANGED <<locals, media, env, running>>

Next ==
    \/ find_installers
    \/ list_external_disks
    \/ select_disk
    \/ verify_disk_safety
    \/ check_disk_space
    \/ confirm_disk_erasure
    \/ unmount_disk
    \/ set_partitioning_started
    \/ partition_disk_validate
    \/ partition_disk_layout
    \/ partition_disk_dispatch
    \/ partition_disk_wait
    \/ create_install_media
    \/ media_tool_check
    \/ media_wait_for_volume
    \/ media_find_volume_path
    \/ media_dispatch
    \/ media_wait
    \/ media_verify
    \/ media_verify_retry
    \/ media_verify_check
    \/ main_success
    \/ main_except
    \/ restore_disk_unmount
    \/ restore_disk_dispatch
    \/ restore_disk_wait
    \/ handler_exit
    \/ keyboard_interrupt
    \/ keyboard_interrupt_in_handler

Spec == Init /\ [][Next]_vars

\* main is a sequential program: its next statement is always executed, every
\* external command that was dispatched exits and every prompt is answered,
\* so a step that stays possible is eventually taken.
LiveSpec == Spec /\ WF_vars(Next)

(***************************************************************************)
(* utils/size.py on its own: calculate_partition_size_bytes and            *)
(* format_size_for_diskutil applied to a pair of byte sizes.               *)
(***************************************************************************)
MaxSizeGB == 2

\* Remainders within a GB: none, one byte, and the sizes around the one that
\* the margin brings to an exact GB (1024 MB - MARGIN_SIZE_MB), one byte less
\* than a GB.
RemChoices ==
    LET edge == (BYTES_PER_KB - MARGIN_SIZE_MB) * BYTES_PER_MB
    IN  {0, 1, edge - 1, edge, edge + 1, BYTES_PER_GB - 1}

ByteInputs ==
    {Bytes(g, r) : g \in 0..MaxSizeGB, r \in RemChoices} \cup {GB(12), GB(14)}

\* main is not running
MainIdle ==
    /\ exit_status = 0
    /\ exc = "none"
    /\ handler = "none"
    /\ partitioning_started = FALSE
    /\ idx = 0
    /\ verification_result = FALSE
    /\ app_installers = <<>>
    /\ running = {}
    /\ events = <<>>

main_vars == <<ctl, partitioning_started, media, app_installers, running, events>>

SizeInit ==
    /\ pc = "calculate_partition_size_bytes"
    /\ MainIdle
    /\ installers = <<>>
    /\ target_disk = "None"
    /\ disk_total = GB(500)
    /\ disk_total_valid = TRUE
    /\ disk_internal = FALSE
    /\ size_bytes \in ByteInputs \X ByteInputs
    /\ partition_size = <<>>
    /\ size_token = <<>>
    /\ validation = [disk_info |-> "none", result |-> "none"]
    /\ partition_cmd = [argv |-> <<>>, partitions |-> <<>>]
    /\ MonitorIdle
    /\ FinderIdle
    /\ CommandIdle

apply_calculate_partition_size_bytes ==
    /\ pc = "calculate_partition_size_bytes"
    /\ partition_size' =
          [i \in DOMAIN size_bytes |-> calculate_partition_size_bytes(size_bytes[i])]
    /\ pc' = "format_size_for_diskutil"
    /\ UNCHANGED <<main_vars, monitor, finder, command, installers, target_disk, disk_total,
                   disk_total_valid, disk_internal, size_bytes, size_token, validation, partition_cmd>>

apply_format_size_for_diskutil ==
    /\ pc = "format_size_for_diskutil"
    /\ size_token' =
          [i \in DOMAIN size_bytes |-> format_size_for_diskutil(size_bytes[i])]
    /\ pc' = "sized"
    /\ UNCHANGED <<main_vars, monitor, finder, command, installers, target_disk, disk_total,
                   disk_total_valid, disk_internal, size_bytes, partition_size, validation, partition_cmd>>

SizeNext ==
    \/ apply_calculate_partition_size_bytes
    \/ apply_format_size_for_diskutil

SizeSpec == SizeInit /\ [][SizeNext]_vars

(***************************************************************************)
(* disk/partitioning.py on its own: validate_partition_sizes, then the     *)
(* command partition_disk builds, for an installer list and a disk.        *)
(***************************************************************************)
MaxLayoutInstallers == 3

\* Bundle sizes: 100 MB and 600 MB (partitions of 1 GB and 2 GB), 12 GB, 14 GB
LayoutInstallerSizes == {MB(100), MB(600), GB(12), GB(14)}

\* TotalSize: one byte less than 1 GB, 1 GB, 1800 MB, 2 GB, 10 GB, 500 GB
LayoutDiskSizes ==
    {Bytes(0, BYTES_PER_GB - 1), GB(1), MB(1800), GB(2), GB(10), GB(500)}

LayoutInstallerLists ==
    UNION { [1..n -> LayoutInstallerSizes] : n \in 1..MaxLayoutInstallers }

LayoutInit ==
    /\ pc = "validate_partition_sizes_call"
    /\ MainIdle
    /\ installers \in {InstallerInfo(l) : l \in LayoutInstallerLists}
    /\ target_disk = "disk"
    /\ disk_total \in LayoutDiskSizes
    /\ disk_total_valid \in BOOLEAN
    /\ disk_total_valid \/ disk_total = GB(500)
    /\ disk_internal = FALSE
    /\ size_bytes = <<>>
    /\ partition_size = <<>>
    /\ size_token = <<>>
    /\ validation = [disk_info |-> "none", result |-> "none"]
    /\ partition_cmd = [argv |-> <<>>, partitions |-> <<>>]
    /\ MonitorIdle
    /\ FinderIdle
    /\ CommandIdle

\* partitioning.py:81: validate_partition_sizes(target_disk, installers); an
\* exception leaves partition_disk.
apply_validate_partition_sizes ==
    /\ pc = "validate_partition_sizes_call"
    /\ \E q \in QueryOutcomes :
          LET r == get_disk_info(q)
              res == validate_partition_sizes(r, disk_total, installers)
          IN  /\ validation' = [disk_info |-> r, result |-> res]
              /\ pc' = IF res = "return" THEN "partition_cmd" ELSE "raised"
    /\ UNCHANGED <<main_vars, monitor, finder, command, installers, target_disk, disk_total,
                   disk_total_valid, disk_internal, size_bytes, partition_size, size_token,
                   partition_cmd>>

\* partitioning.py:105-131
build_partition_cmd ==
    /\ pc = "partition_cmd"
    /\ partition_cmd' = partition_cmd_for(target_disk, installers)
    /\ pc' = "partition_cmd_built"
    /\ UNCHANGED <<main_vars, monitor, finder, command, installers, target_disk, disk_total,
                   disk_total_valid, disk_internal, size_bytes, partition_size, size_token, validation>>

LayoutNext ==
    \/ apply_validate_partition_sizes
    \/ build_partition_cmd

LayoutSpec == LayoutInit /\ [][LayoutNext]_vars

(***************************************************************************)
(* utils/progress.py on its own: one ProgressBar from start() on, with its *)
(* animation thread (show_progress), the output-reader thread that feeds   *)
(* parse_line, the clock, and stop().                                      *)
(***************************************************************************)
\* partitioning.py:154  time_estimate_seconds=60
time_estimate == 60

MaxElapsed == 66

\* The clock moves on by 6 or by 30 seconds between two observations.
TickSteps == {6, 30}

\* progress.py:33  self.progress_message = ["Démarrage..."]
Starting == "Demarrage..."

\* f"{self.operation_name} en cours..."
InProgress == "operation_name en cours..."

\* progress_rules of partition_disk (partitioning.py:137-147), each as its
\* percent and message; any of them is the first match of some output line.
progress_rules ==
    { [percent |-> 10, message |-> "progress.unmounting_disk"],
      [percent |-> 20, message |-> "progress.creating_partition_table"],
      [percent |-> 40, message |-> "progress.waiting_partitions"],
      [percent |-> 60, message |-> "progress.formatting_partitions"],
      [percent |-> 80, message |-> "progress.mounting_volumes"],
      [percent |-> 100, message |-> "progress.done"] }

Max(a, b) == IF a > b THEN a ELSE b

Min(a, b) == IF a < b THEN a ELSE b

\* Variant: the rule's percent replaces the stored one.
ProgressBar_update_overwrite(stored, rule_percent) == rule_percent

\* ProgressBar.update (progress.py:104): the new progress_percent[0]
ProgressBar_update(stored, rule_percent) == Max(stored, rule_percent)

\* progress.py:54-56: min(int((elapsed / self.time_estimate) * 90), 90).  The
\* float product may fall one below the integer quotient at an exact
\* boundary; it is non-decreasing in elapsed either way.
time_based_percent(t) == Min((t * 90) \div time_estimate, 90)

\* progress.py:50-58: the percent a frame shows, from the percent it read
frame_percent(p, t) ==
    IF p < 90 /\ t > 5 /\ time_based_percent(t) > p
    THEN time_based_percent(t)
    ELSE p

\* What a ProgressBar does not touch
outside == <<pc, main_vars, installers, target_disk, disk_total, disk_total_valid,
             disk_internal, calc, finder, command>>

\* After ProgressBar.__init__ and start() (progress.py:31-37, 80-81)
ProgressInit ==
    /\ pc = "partition_wait"
    /\ MainIdle
    /\ installers = <<>>
    /\ target_disk = "disk"
    /\ disk_total = GB(500)
    /\ disk_total_valid = TRUE
    /\ disk_internal = FALSE
    /\ CalcIdle
    /\ FinderIdle
    /\ CommandIdle
    /\ progress_percent = 0
    /\ progress_message = Starting
    /\ animation_running = TRUE
    /\ elapsed = 0
    /\ anim_pc = "loop"
    /\ percent = 0
    /\ shown = NoFrame

\* time.time() moves on
clock_tick ==
    /\ \E d \in TickSteps :
          /\ elapsed + d <= MaxElapsed
          /\ elapsed' = elapsed + d
    /\ UNCHANGED <<outside, progress_percent, progress_message, animation_running,
                   anim_pc, percent, shown>>

\* progress.py:48-50: the loop test, then percent = self.progress_percent[0];
\* when the event is cleared the loop ends and the line is blanked (78-80).
show_progress_read ==
    /\ anim_pc = "loop"
    /\ IF animation_running
       THEN /\ percent' = progress_percent
            /\ anim_pc' = "draw"
            /\ UNCHANGED shown
       ELSE /\ anim_pc' = "ended"
            /\ UNCHANGED <<percent, shown>>
    /\ UNCHANGED <<outside, progress_percent, progress_message, animation_running,
                   elapsed>>

\* progress.py:51-75: message and the clock are read, the percent of the frame
\* is worked out and the frame is written.
show_progress_draw ==
    /\ anim_pc = "draw"
    /\ shown' = [percent |-> frame_percent(percent, elapsed),
                 message |-> IF progress_message = Starting
                             THEN InProgress
                             ELSE progress_message]
    /\ anim_pc' = "loop"
    /\ UNCHANGED <<outside, progress_percent, progress_message, animation_running,
                   elapsed, percent>>

\* read_output (progress.py:153-162): a line of the tool's output reaches
\* parse_line, whose first matching rule is handed to update (96-119).
read_output_line ==
    /\ \E rule \in progress_rules :
          /\ progress_percent' = ProgressBar_update(progress_percent, rule.percent)
          /\ progress_message' = rule.message
    /\ UNCHANGED <<outside, animation_running, elapsed, anim_pc, percent, shown>>

\* ProgressBar.stop (progress.py:87-89): self.animation_running.clear()
ProgressBar_stop ==
    /\ animation_running
    /\ animation_running' = FALSE
    /\ UNCHANGED <<outside, progress_percent, progress_message, elapsed, anim_pc,
                   percent, shown>>

ProgressNext ==
    \/ clock_tick
    \/ show_progress_read
    \/ show_progress_draw
    \/ read_output_line
    \/ ProgressBar_stop

ProgressSpec == ProgressInit /\ [][ProgressNext]_vars

(***************************************************************************)
(* installer/finder.py on its own: find_installers scanning a directory.   *)
(***************************************************************************)
\* Entries of TARGET_OS (config.py:10-27) in their order there: Sonoma,
\* Ventura, High Sierra, Sierra; the keyword of the last is part of the
\* keyword of the one before it.
TARGET_OS ==
    << [name |-> "macOS Sonoma", keyword |-> "Sonoma",
        volume |-> "Install macOS Sonoma"],
       [name |-> "macOS Ventura", keyword |-> "Ventura",
        volume |-> "Install macOS Ventura"],
       [name |-> "macOS High Sierra", keyword |-> "High Sierra",
        volume |-> "Install macOS High Sierra"],
       [name |-> "macOS Sierra", keyword |-> "Sierra",
        volume |-> "Install macOS Sierra"] >>

\* Names a directory may hold
BundleNames ==
    {"Install macOS Sonoma.app", "Install macOS Sonoma beta.app",
     "Install macOS High Sierra.app", "Install macOS Sierra.app",
     "macOS Ventura.app"}

\* The keywords of TARGET_OS that are substrings of a name
KeywordsIn(f) ==
    CASE f = "Install macOS Sonoma.app"      -> {"Sonoma"}
      [] f = "Install macOS Sonoma beta.app" -> {"Sonoma"}
      [] f = "Install macOS High Sierra.app" -> {"High Sierra", "Sierra"}
      [] f = "Install macOS Sierra.app"      -> {"Sierra"}
      [] f = "macOS Ventura.app"             -> {"Ventura"}

\* finder.py:55  keyword in f.name and f.suffix == ".app" and "Install" in f.name
IsCandidate(f, keyword) == keyword \in KeywordsIn(f) /\ f # "macOS Ventura.app"

\* finder.py:52-56  candidates, in the order the directory lists them
candidates(keyword) == SelectSeq(app_dir, LAMBDA f : IsCandidate(f, keyword))

MaxBundles == 3

\* Directory listings: the names present, each once, in any order
Listings ==
    { l \in UNION { [1..n -> BundleNames] : n \in 0..MaxBundles } :
        \A i, j \in DOMAIN l : i # j => l[i] # l[j] }

Range(f) == { f[i] : i \in DOMAIN f }

\* What a scan of the directory does not touch
beside_finder == <<locals, media, app_installers, disk_total, disk_total_valid,
                   disk_internal, calc, monitor, command, running, events, app_dir,
                   not_dirs>>

FinderInit ==
    /\ pc = "find_installers_open"
    /\ MainIdle
    /\ installers = <<>>
    /\ target_disk = "None"
    /\ disk_total = GB(500)
    /\ disk_total_valid = TRUE
    /\ disk_internal = FALSE
    /\ CalcIdle
    /\ MonitorIdle
    /\ CommandIdle
    /\ app_dir \in Listings
    /\ not_dirs \in SUBSET Range(app_dir)
    /\ entry = 0
    /\ found = <<>>

\* finder.py:41-49: the directory exists and is a directory, or sys.exit(1)
find_installers_open ==
    /\ pc = "find_installers_open"
    /\ \E is_dir \in BOOLEAN :
          IF is_dir
          THEN Step("find_installers_entry") /\ entry' = 1
          ELSE Exit(1) /\ UNCHANGED entry
    /\ UNCHANGED <<beside_finder, found>>

\* The InstallerInfo of finder.py:86-93 for catalog entry k and bundle path
found_entry(k, path) ==
    [name |-> TARGET_OS[k].name, path |-> path, volume |-> TARGET_OS[k].volume,
     size_bytes |-> MB(600)]

\* Variant: the entry is put in front of found.
find_installers_entry_prepending ==
    /\ pc = "find_installers_entry"
    /\ entry <= Len(TARGET_OS)
    /\ \E permitted \in BOOLEAN :
          IF ~permitted
          THEN Exit(1) /\ UNCHANGED <<entry, found>>
          ELSE /\ Step("find_installers_entry")
               /\ entry' = entry + 1
               /\ LET c == candidates(TARGET_OS[entry].keyword)
                  IN  found' = IF c # <<>> /\ c[1] \notin not_dirs
                               THEN <<found_entry(entry, c[1])>> \o found
                               ELSE found
    /\ UNCHANGED beside_finder

\* finder.py:51-96: one pass of the loop over TARGET_OS; PermissionError on
\* iterdir ends the process.
find_installers_entry ==
    /\ pc = "find_installers_entry"
    /\ entry <= Len(TARGET_OS)
    /\ \E permitted \in BOOLEAN :
          IF ~permitted
          THEN Exit(1) /\ UNCHANGED <<entry, found>>
          ELSE /\ Step("find_installers_entry")
               /\ entry' = entry + 1
               /\ LET c == candidates(TARGET_OS[entry].keyword)
                  IN  found' = IF c # <<>> /\ c[1] \notin not_dirs
                               THEN Append(found, found_entry(entry, c[1]))
                               ELSE found
    /\ UNCHANGED beside_finder

\* finder.py:98-106: sys.exit(1) when nothing was found, else return found
find_installers_return ==
    /\ pc = "find_installers_entry"
    /\ entry > Len(TARGET_OS)
    /\ IF found = <<>> THEN Exit(1) ELSE Step("find_installers_returned")
    /\ UNCHANGED <<beside_finder, entry, found>>

FinderNext ==
    \/ find_installers_open
    \/ find_installers_entry
    \/ find_installers_return

FinderSpec == FinderInit /\ [][FinderNext]_vars

\* ---------------------------------------------------------------------------
\* One command run through run_command_with_progress by partition_disk, with
\* the external process, the output thread and the animation thread
\* (CommandSpec).
\* ---------------------------------------------------------------------------

MaxLines == 2

\* two lines of the tool that match a progress rule, and the line diskutil
\* ends with when the disk is busy
Plain == "Unmounting disk"
PartitionMap == "Creating the partition map"
Signature == "in use by process"
LineTexts == {Plain, PartitionMap, Signature}

ToolOutputs ==
    UNION {[1..n -> LineTexts] : n \in 0..MaxLines}

Line(i, s) == [n |-> i, text |-> s]

\* ProgressBar.parse_line (progress.py:115-119) on the lines of LineTexts: the
\* first rule whose keyword is in the line, if there is one
matching_rule(text) ==
    CASE text = Plain ->
            {[percent |-> 10, message |-> "progress.unmounting_disk"]}
      [] text = PartitionMap ->
            {[percent |-> 20, message |-> "progress.creating_partition_table"]}
      [] OTHER -> {}

\* "in use by process" in error_output or "Couldn't unmount" in error_output
\* (partitioning.py:165-168, 205-207)
has_signature(lines) == \E i \in DOMAIN lines : lines[i].text = Signature

\* One write to the terminal: who writes, whether the writer holds
\* _stdout_lock, whether the animation thread is alive, and whether another
\* thread is inside its own locked write at that moment.
Write(by, locked) ==
    [by |-> by, locked |-> locked, alive |-> anim_pc # "ended",
     during |-> stdout_lock # "none"]

Printed(msg) == Ev("print", msg, 0, 0)

beside_command == <<exit_status, handler, locals, media, app_installers, disk_total,
                    disk_total_valid, disk_internal, calc, finder, running, elapsed,
                    percent, shown>>

\* progress_bar.start() has run (progress.py:140-141) and Popen is next.
CommandInit ==
    /\ pc = "Popen"
    /\ MainIdle
    /\ installers = <<>>
    /\ target_disk = "disk"
    /\ disk_total = GB(500)
    /\ disk_total_valid = TRUE
    /\ disk_internal = FALSE
    /\ CalcIdle
    /\ FinderIdle
    /\ progress_percent = 0
    /\ progress_message = Starting
    /\ animation_running = TRUE
    /\ elapsed = 0
    /\ anim_pc = "loop"
    /\ percent = 0
    /\ shown = NoFrame
    /\ tool_output \in ToolOutputs
    /\ emitted = 0
    /\ pipe = <<>>
    /\ process_exited = FALSE
    /\ process_returncode = 0
    /\ output_lines = <<>>
    /\ parsed = <<>>
    /\ reader_pc = "none"
    /\ reader_line = NoLine
    /\ stored_percent = 0
    /\ error_output = <<>>
    /\ stdout_lock = "none"
    /\ writes = {}

\* progress.py:143-167: the process and the output thread are started; when
\* the executable cannot be started Popen raises OSError, which neither
\* run_command_with_progress nor partition_disk (partitioning.py:202) catches.
Popen ==
    /\ pc = "Popen"
    /\ \/ /\ reader_pc' = "read"
          /\ pc' = "process_wait"
          /\ UNCHANGED exc
       \/ /\ exc' = "OSError"
          /\ pc' = "except"
          /\ UNCHANGED reader_pc
    /\ UNCHANGED <<beside_command, events, progress_percent, progress_message,
                   animation_running, anim_pc, tool_output, emitted, pipe,
                   process_exited, process_returncode, output_lines, parsed,
                   reader_line, stored_percent, error_output, stdout_lock, writes>>

\* The external tool writes its next line to the pipe.
tool_write ==
    /\ reader_pc # "none"
    /\ ~process_exited
    /\ emitted < Len(tool_output)
    /\ emitted' = emitted + 1
    /\ pipe' = Append(pipe, Line(emitted + 1, tool_output[emitted + 1]))
    /\ UNCHANGED <<pc, exc, beside_command, events, progress_percent,
                   progress_message, animation_running, anim_pc, tool_output,
                   process_exited, process_returncode, output_lines, parsed,
                   reader_pc, reader_line, stored_percent, error_output, stdout_lock, writes>>

\* The external tool exits once it has written all its lines.
tool_exit ==
    /\ reader_pc # "none"
    /\ ~process_exited
    /\ emitted = Len(tool_output)
    /\ process_exited' = TRUE
    /\ process_returncode' \in ReturnCodes
    /\ UNCHANGED <<pc, exc, beside_command, events, progress_percent,
                   progress_message, animation_running, anim_pc, tool_output,
                   emitted, pipe, output_lines, parsed, reader_pc, reader_line, stored_percent,
                   error_output, stdout_lock, writes>>

\* read_output (progress.py:156): for line in process.stdout: the next line
\* leaves the pipe, or the loop ends at end of file.
read_output_next ==
    /\ reader_pc = "read"
    /\ IF pipe # <<>>
       THEN /\ reader_line' = Head(pipe)
            /\ pipe' = Tail(pipe)
            /\ reader_pc' = "append"
       ELSE /\ process_exited
            /\ reader_pc' = "ended"
            /\ UNCHANGED <<reader_line, pipe>>
    /\ UNCHANGED <<pc, exc, beside_command, events, progress_percent,
                   progress_message, animation_running, anim_pc, tool_output,
                   emitted, process_exited, process_returncode, output_lines,
                   parsed, stored_percent, error_output, stdout_lock, writes>>

\* read_output (progress.py:158-159): output_lines.append(line)
read_output_append ==
    /\ reader_pc = "append"
    /\ output_lines' = Append(output_lines, reader_line)
    /\ reader_pc' = "parse"
    /\ UNCHANGED <<pc, exc, beside_command, events, progress_percent,
                   progress_message, animation_running, anim_pc, tool_output,
                   emitted, pipe, process_exited, process_returncode, parsed,
                   reader_line, stored_percent, error_output, stdout_lock, writes>>

\* read_output (progress.py:160): progress_bar.parse_line(line, progress_rules)
\* finds the first rule that matches (115-117); update then reads the stored
\* percent (104, right-hand side). A line that matches no rule changes nothing.
read_output_parse ==
    /\ reader_pc = "parse"
    /\ IF matching_rule(reader_line.text) = {}
       THEN /\ parsed' = Append(parsed, reader_line)
            /\ reader_pc' = "read"
            /\ UNCHANGED stored_percent
       ELSE /\ stored_percent' = progress_percent
            /\ reader_pc' = "update"
            /\ UNCHANGED parsed
    /\ UNCHANGED <<pc, exc, beside_command, events, progress_percent,
                   progress_message, animation_running, anim_pc, tool_output,
                   emitted, pipe, process_exited, process_returncode, output_lines,
                   reader_line, error_output, stdout_lock, writes>>

\* ProgressBar.update (progress.py:104-105): the maximum of the percent read
\* and the rule's percent is stored, then the rule's message.
read_output_update ==
    /\ reader_pc = "update"
    /\ \E rule \in matching_rule(reader_line.text) :
          /\ progress_percent' = ProgressBar_update(stored_percent, rule.percent)
          /\ progress_message' = rule.message
    /\ parsed' = Append(parsed, reader_line)
    /\ reader_pc' = "read"
    /\ UNCHANGED <<pc, exc, beside_command, events, animation_running, anim_pc,
                   tool_output, emitted, pipe, process_exited, process_returncode,
                   output_lines, reader_line, stored_percent, error_output, stdout_lock,
                   writes>>

\* show_progress (progress.py:47): while self.animation_running.is_set()
show_progress_test ==
    /\ anim_pc = "loop"
    /\ anim_pc' = IF animation_running THEN "frame" ELSE "blank"
    /\ UNCHANGED <<pc, exc, beside_command, command, events, progress_percent,
                   progress_message, animation_running>>

\* show_progress (progress.py:69-75, 80-82): with _stdout_lock: the frame, or
\* after the loop the blanking of the line, is written.
show_progress_write ==
    /\ anim_pc \in {"frame", "blank"}
    /\ stdout_lock = "none"
    /\ stdout_lock' = "show_progress"
    /\ writes' = writes \cup {Write("show_progress", TRUE)}
    /\ anim_pc' = IF anim_pc = "frame" THEN "frame_written" ELSE "blank_written"
    /\ UNCHANGED <<pc, exc, beside_command, events, progress_percent,
                   progress_message, animation_running, tool_output, emitted, pipe,
                   process_exited, process_returncode, output_lines, parsed,
                   reader_pc, reader_line, stored_percent, error_output>>

\* The with block ends: the lock is released; after a frame the thread sleeps
\* and tests the event again (77-78), after the blanking it ends.
show_progress_release ==
    /\ anim_pc \in {"frame_written", "blank_written"}
    /\ stdout_lock' = "none"
    /\ anim_pc' = IF anim_pc = "frame_written" THEN "loop" ELSE "ended"
    /\ UNCHANGED <<pc, exc, beside_command, events, progress_percent,
                   progress_message, animation_running, tool_output, emitted, pipe,
                   process_exited, process_returncode, output_lines, parsed,
                   reader_pc, reader_line, stored_percent, error_output, writes>>

\* partition_disk (partitioning.py:157): process.wait() returns once the
\* process has exited.
process_wait ==
    /\ pc = "process_wait"
    /\ process_exited
    /\ pc' = "ProgressBar_stop"
    /\ UNCHANGED <<exc, beside_command, command, events, progress_percent,
                   progress_message, animation_running, anim_pc>>

\* Ctrl-C while main is in process.wait(): KeyboardInterrupt leaves
\* partition_disk, whose except clause (202) does not name it, and
\* progress_bar.stop() is not reached.
wait_interrupted ==
    /\ pc = "process_wait"
    /\ exc' = "KeyboardInterrupt"
    /\ pc' = "except"
    /\ UNCHANGED <<beside_command, command, events, progress_percent,
                   progress_message, animation_running, anim_pc>>

\* ProgressBar.stop (progress.py:89): self.animation_running.clear()
stop_clear ==
    /\ pc = "ProgressBar_stop"
    /\ animation_running' = FALSE
    /\ pc' = "join"
    /\ UNCHANGED <<exc, beside_command, command, events, progress_percent,
                   progress_message, anim_pc>>

\* ProgressBar.stop (progress.py:91): self.progress_thread.join(timeout=0.5)
\* returns when the thread has ended or when the half second is over.
stop_join ==
    /\ pc = "join"
    /\ pc' = "stop_write"
    /\ UNCHANGED <<exc, beside_command, command, events, progress_percent,
                   progress_message, animation_running, anim_pc>>

\* ProgressBar.stop (progress.py:92-94): with _stdout_lock: the line is blanked.
stop_write ==
    /\ pc = "stop_write"
    /\ stdout_lock = "none"
    /\ stdout_lock' = "stop"
    /\ writes' = writes \cup {Write("stop", TRUE)}
    /\ pc' = "stop_written"
    /\ UNCHANGED <<exc, beside_command, events, progress_percent, progress_message,
                   animation_running, anim_pc, tool_output, emitted, pipe,
                   process_exited, process_returncode, output_lines, parsed,
                   reader_pc, reader_line, stored_percent, error_output>>

stop_release ==
    /\ pc = "stop_written"
    /\ stdout_lock' = "none"
    /\ pc' = "read_remaining_output"
    /\ UNCHANGED <<exc, beside_command, events, progress_percent, progress_message,
                   animation_running, anim_pc, tool_output, emitted, pipe,
                   process_exited, process_returncode, output_lines, parsed,
                   reader_pc, reader_line, stored_percent, error_output, writes>>

\* read_remaining_output (commands.py:174-182): only when output_lines is
\* empty, process.communicate(timeout=1.0) reads what is left in the pipe and
\* its lines are appended; TimeoutExpired is passed over.
read_remaining_output ==
    /\ pc = "read_remaining_output"
    /\ IF output_lines = <<>>
       THEN \/ /\ output_lines' = pipe
               /\ pipe' = <<>>
            \/ UNCHANGED <<output_lines, pipe>>
       ELSE UNCHANGED <<output_lines, pipe>>
    /\ pc' = "check_returncode"
    /\ UNCHANGED <<exc, beside_command, events, progress_percent, progress_message,
                   animation_running, anim_pc, tool_output, emitted, process_exited,
                   process_returncode, parsed, reader_pc, reader_line, stored_percent, error_output,
                   stdout_lock, writes>>

\* What partition_disk prints for a failed command: the guidance of its failure
\* branch (partitioning.py:165-197) when error_output carries a signature,
\* otherwise the messages of its except clause (202-216), where the details
\* are printed only for a non-empty e.stderr.
partition_failure_prints(lines) ==
    IF has_signature(lines)
    THEN <<Printed("disk.partition_fail_in_use")>>
    ELSE <<Printed("disk.partition_fail")>>
         \o (IF lines # <<>> THEN <<Printed("disk.partition_error_details")>> ELSE <<>>)

\* partition_disk (partitioning.py:162-217): on a non-zero return code
\* error_output is built from output_lines, the failure is printed and
\* CommandError(partition_cmd, returncode, error_output) is raised again.
check_returncode ==
    /\ pc = "check_returncode"
    /\ IF process_returncode # 0
       THEN /\ error_output' = output_lines
            /\ events' = events \o partition_failure_prints(output_lines)
            /\ writes' = writes \cup {Write("partition_disk", FALSE)}
            /\ exc' = "CommandError"
            /\ pc' = "except"
       ELSE /\ pc' = "returned"
            /\ UNCHANGED <<error_output, events, writes, exc>>
    /\ UNCHANGED <<beside_command, progress_percent, progress_message,
                   animation_running, anim_pc, tool_output, emitted, pipe,
                   process_exited, process_returncode, output_lines, parsed,
                   reader_pc, reader_line, stored_percent, stdout_lock>>

\* What the except clauses of main print first (main.py:113; _handle_error,
\* main.py:57-60).
handler_prints(e, stderr) ==
    IF e = "KeyboardInterrupt"
    THEN <<Printed("main.interrupted")>>
    ELSE <<Printed("main.error")>>
         \o (IF e = "CommandError" /\ stderr # <<>>
             THEN <<Printed("main.error_details")>>
             ELSE <<>>)

\* main (main.py:112-154): the except clause that matches prints.
except_prints ==
    /\ pc = "except"
    /\ events' = events \o handler_prints(exc, error_output)
    /\ writes' = writes \cup {Write("main", FALSE)}
    /\ pc' = "handled"
    /\ UNCHANGED <<exc, beside_command, progress_percent, progress_message,
                   animation_running, anim_pc, tool_output, emitted, pipe,
                   process_exited, process_returncode, output_lines, parsed,
                   reader_pc, reader_line, stored_percent, error_output, stdout_lock>>

CommandNext ==
    \/ Popen
    \/ tool_write
    \/ tool_exit
    \/ read_output_next
    \/ read_output_append
    \/ read_output_parse
    \/ read_output_update
    \/ show_progress_test
    \/ show_progress_write
    \/ show_progress_release
    \/ process_wait
    \/ wait_interrupted
    \/ stop_clear
    \/ stop_join
    \/ stop_write
    \/ stop_release
    \/ read_remaining_output
    \/ check_returncode
    \/ except_prints

CommandSpec == CommandInit /\ [][CommandNext]_vars

(***************************************************************************)
(* Reading the history                                                     *)
(***************************************************************************)
Has(e, w) == \E i \in DOMAIN events : events[i].ev = e /\ events[i].what = w

HasK(e, w, i) ==
    \E j \in DOMAIN events : events[j].ev = e /\ events[j].what = w /\ events[j].k = i

HasKV(e, w, i, x) == \E j \in DOMAIN events : events[j] = Ev(e, w, i, x)

Exited == pc = "exited"

RestoreInvoked == Has("call", "restore_disk")

\* The exceptions the except clauses of main.py:117-154 handle
Failures ==
    {"CommandError", "CommandNotFoundError", "PlistParseError", "ValueError",
     "InstallationError", "OSError"}

\* An unmount or erase command is dispatched by event i
IsUnmountOrErase(i) ==
    events[i].ev = "dispatch" /\ events[i].what \in {"unmountDisk", "eraseDisk"}

IsPartitionDispatch(i) == events[i] = Ev("dispatch", "partitionDisk", 0, 0)

\* create_install_media waits for a volume or starts a media tool at event i
IsMediaWork(i) ==
    \/ events[i].ev = "wait_for_volume"
    \/ events[i].ev = "dispatch" /\ events[i].what = "createinstallmedia"

(***************************************************************************)
(* C1: in every run in which partitioning has begun and partition_disk or  *)
(* create_install_media then fails with one of the handled exceptions,     *)
(* restore_disk has been invoked by the time the process exits with        *)
(* status 1.                                                               *)
(***************************************************************************)
C1_RestoreBeforeExit1 ==
    (Exited /\ exit_status = 1 /\ partitioning_started /\ exc \in Failures)
        => RestoreInvoked

C1_Witness ==
    /\ Exited /\ exit_status = 1 /\ partitioning_started
    /\ exc = "InstallationError"
    /\ HasKV("exit", "eraseDisk", 1, 0)

(***************************************************************************)
(* C2: when validate_partition_sizes raises the sizing error, restore_disk *)
(* is never invoked in that run.                                           *)
(***************************************************************************)
C2_NoRestoreAfterSizingError ==
    Has("validate_raise", "ValueError") => ~RestoreInvoked

(***************************************************************************)
(* C3: validate_partition_sizes has completed before the first unmount or  *)
(* erase command is issued against the target disk.                        *)
(***************************************************************************)
C3_ValidationBeforeUnmountOrErase ==
    \A i \in DOMAIN events :
        IsUnmountOrErase(i) =>
            \E j \in 1..(i - 1) : events[j].ev \in {"validate_return", "validate_raise"}

(***************************************************************************)
(* C4: the partition command is dispatched only after                      *)
(* validate_partition_sizes has returned without raising in the same run.  *)
(***************************************************************************)
C4_PartitionAfterValidation ==
    \A i \in DOMAIN events :
        IsPartitionDispatch(i) =>
            /\ \E j \in 1..(i - 1) : events[j].ev = "validate_return"
            /\ \A j \in 1..(i - 1) : events[j].ev # "validate_raise"

C4_Witness ==
    /\ Has("dispatch", "partitionDisk")
    /\ Has("validate_return", "ok")
    /\ Len(installers) > 1

(***************************************************************************)
(* C5: create_install_media is entered, waits for a volume or starts a     *)
(* media tool only after the partition command has exited with code 0; if  *)
(* the partition command exits non-zero or cannot be started,              *)
(* create_install_media is never entered.                                  *)
(***************************************************************************)
C5_MediaAfterPartitionSuccess ==
    LET succeeded == {j \in DOMAIN events : events[j] = Ev("exit", "partitionDisk", 0, 0)}
        entered == {i \in DOMAIN events :
                      IsMediaWork(i) \/ events[i] = Ev("call", "create_install_media", 0, 0)}
    IN  /\ \A i \in entered : \E j \in succeeded : j < i
        /\ (HasKV("exit", "partitionDisk", 0, 1) \/ Has("start_failed", "partitionDisk"))
              => entered = {}

C5_Witness ==
    /\ HasK("dispatch", "createinstallmedia", 1)
    /\ HasKV("exit", "partitionDisk", 0, 0)

(***************************************************************************)
(* C6: a run interrupted inside the try block of main exits with status    *)
(* 130, and restore_disk has been invoked before that exit exactly when    *)
(* partitioning had begun (partitioning_started set and a disk chosen) at  *)
(* the interrupt.  Runs with a second interrupt are left aside.            *)
(***************************************************************************)
C6_InterruptExits130 ==
    (Exited /\ exc = "KeyboardInterrupt" /\ ~Has("interrupt", "handler"))
        => /\ exit_status = 130
           /\ RestoreInvoked <=> \E i \in DOMAIN events :
                                    events[i].ev = "interrupt" /\ events[i].v = 1

(***************************************************************************)
(* C7: restore_disk never raises, whatever the outcome of its unmount step *)
(* and of its erase command.                                               *)
(***************************************************************************)
C7_RestoreNeverRaises == ~Has("raise", "restore_disk")

(***************************************************************************)
(* C8: the run reports success only if every installer's media tool exited *)
(* with code 0 and a verification of its volume returned true; an          *)
(* installer is counted as written only then; a non-zero tool exit raises  *)
(* InstallationError for that installer without any verification.          *)
(***************************************************************************)
Verified(k) == HasKV("verify", "first", k, 1) \/ HasKV("verify", "retry", k, 1)

ToolSucceeded(k) == HasKV("exit", "createinstallmedia", k, 0)

C8_SuccessOnlyIfAllVerified ==
    /\ (Has("print", "main.success") \/ (Exited /\ exit_status = 0 /\ partitioning_started))
          => \A k \in 1..Len(installers) : ToolSucceeded(k) /\ Verified(k)
    /\ \A k \in 1..Len(installers) :
          /\ HasK("written", "installer", k) => (ToolSucceeded(k) /\ Verified(k))
          /\ HasKV("exit", "createinstallmedia", k, 1)
                => /\ HasK("raise", "InstallationError", k)
                   /\ ~HasK("verify", "first", k)
                   /\ ~HasK("verify", "retry", k)

C8_Witness ==
    /\ Has("print", "main.success")
    /\ Len(installers) = 2
    /\ HasKV("verify", "first", 1, 0)
    /\ HasKV("verify", "retry", 1, 1)

(***************************************************************************)
(* C9: after the media tool has exited with code 0, verification is        *)
(* attempted at most twice per installer, the second time only if the      *)
(* first returned false, and InstallationError is raised for the installer *)
(* exactly when both attempts returned false.                              *)
(***************************************************************************)
Verifications(k) == SelectSeq(events, LAMBDA e : e.ev = "verify" /\ e.k = k)

BothFailed(k) ==
    /\ Len(Verifications(k)) = 2
    /\ Verifications(k)[1].v = 0
    /\ Verifications(k)[2].v = 0

C9_VerifyAtMostTwice ==
    \A k \in 1..Len(installers) :
        LET attempts == Verifications(k)
            both_failed == Len(attempts) = 2 /\ attempts[1].v = 0 /\ attempts[2].v = 0
            raised == HasK("raise", "InstallationError", k)
        IN  /\ Len(attempts) <= 2
            /\ Len(attempts) >= 1 => (attempts[1].what = "first" /\ ToolSucceeded(k))
            /\ Len(attempts) = 2 => (attempts[1].v = 0 /\ attempts[2].what = "retry")
            /\ (ToolSucceeded(k) /\ raised) => both_failed
            /\ (both_failed /\ pc # "media_verify_check" /\ exc # "KeyboardInterrupt")
                  => raised

C9_Witness ==
    /\ BothFailed(2)
    /\ HasK("raise", "InstallationError", 2)
    /\ Len(Verifications(1)) = 1

(***************************************************************************)
(* C10: once InstallationError has been raised for an installer, no volume *)
(* wait and no media tool is started for any installer afterwards.         *)
(***************************************************************************)
C10_NothingAfterInstallationError ==
    \A i \in DOMAIN events :
        (events[i].ev = "raise" /\ events[i].what = "InstallationError")
            => \A j \in (i + 1)..Len(events) : ~IsMediaWork(j)

C10_Witness ==
    /\ Exited
    /\ Len(installers) = 2
    /\ HasK("raise", "InstallationError", 1)
    /\ HasKV("wait_for_volume", "volume", 1, 0)
    /\ RestoreInvoked

(***************************************************************************)
(* C11: when the metadata read by verify_disk_safety flags the chosen disk *)
(* as internal and the reply to the safety prompt is anything but exactly  *)
(* "YES", the run has ended with exit status 0, restore_disk was not       *)
(* invoked, and no unmount, partition, erase or media-write command was    *)
(* ever dispatched.                                                        *)
(***************************************************************************)
C11_InternalNeedsExactYes ==
    HasKV("prompt", "verify_disk_safety", 0, 0) =>
        /\ Exited
        /\ exit_status = 0
        /\ ~RestoreInvoked
        /\ \A i \in DOMAIN events : events[i].ev # "dispatch"

\* an internal disk, a reply other than "YES" to the safety prompt, run ended
C11_Witness ==
    /\ disk_internal
    /\ HasKV("prompt", "verify_disk_safety", 0, 0)
    /\ Exited

(***************************************************************************)
(* Sizes and layout: what the properties below read                        *)
(***************************************************************************)
\* validate_partition_sizes has been called and has ended
Validated == validation.result # "none"

\* the metadata was read and its TotalSize is a number
TotalSizeKnown == validation.disk_info = "ok"

\* partitionSizeBytes summed over installers 1..n-1 of the list
NonLastPartitionBytes ==
    BSum([i \in 1..(Len(installers) - 1) |->
             calculate_partition_size_bytes(installers[i].size_bytes)])

(***************************************************************************)
(* C12: with the disk's TotalSize read, validate_partition_sizes raises    *)
(* the sizing error (ValueError) exactly when the partition sizes of all   *)
(* installers but the last sum to strictly more than TotalSize, and it     *)
(* returns normally when the sum is at most TotalSize, an exact fit        *)
(* included.                                                               *)
(***************************************************************************)
C12_SizingErrorIffOverCapacity ==
    Validated =>
        /\ validation.result = "ValueError" <=>
              (TotalSizeKnown /\ BGreater(NonLastPartitionBytes, disk_total))
        /\ (TotalSizeKnown /\ BLeq(NonLastPartitionBytes, disk_total)) =>
              validation.result = "return"

\* an exact fit of two or more installers, accepted
C12_Witness ==
    /\ Validated
    /\ TotalSizeKnown
    /\ Len(installers) > 1
    /\ NonLastPartitionBytes = disk_total
    /\ validation.result = "return"

(***************************************************************************)
(* C13: for an installer list of length one validate_partition_sizes       *)
(* never raises the sizing error, whatever the disk's capacity.            *)
(***************************************************************************)
C13_SingleInstallerNeverSizingError ==
    (Validated /\ Len(installers) = 1) => validation.result # "ValueError"

\* one 12 GB installer, a 10 GB disk, validation returned
C13_Witness ==
    /\ Len(installers) = 1
    /\ installers[1].size_bytes = GB(12)
    /\ disk_total = GB(10)
    /\ TotalSizeKnown
    /\ validation.result = "return"

\* calculate_partition_size_bytes and format_size_for_diskutil have returned
Sized == pc = "sized"

\* The bytes a size token denotes: N M = N * 2^20, N G = N * 2^30
TokenBytes(t) == IF t.unit = "M" THEN MB(t.n) ELSE GB(t.n)

(***************************************************************************)
(* C14: for byte sizes a <= b, calculate_partition_size_bytes(a) <=        *)
(* calculate_partition_size_bytes(b); and every result is an exact         *)
(* multiple of one GB that is at least calculate_size_with_margin of the   *)
(* input.                                                                  *)
(***************************************************************************)
C14_PartitionSizeMonotoneWholeGB ==
    Sized =>
        /\ BLeq(size_bytes[1], size_bytes[2]) =>
              BLeq(partition_size[1], partition_size[2])
        /\ \A i \in DOMAIN size_bytes :
              /\ partition_size[i].rem = 0
              /\ BLeq(calculate_size_with_margin(size_bytes[i]), partition_size[i])

\* a < b whose partition sizes differ, a's margined size not a whole GB
C14_Witness ==
    /\ Sized
    /\ BGreater(size_bytes[2], size_bytes[1])
    /\ BGreater(partition_size[2], partition_size[1])
    /\ calculate_size_with_margin(size_bytes[1]).rem # 0

(***************************************************************************)
(* C15: the token format_size_for_diskutil returns, parsed back to bytes,  *)
(* is at least calculate_size_with_margin of the input, and its suffix is  *)
(* "M" only when the margined size is below 1 GB.                          *)
(***************************************************************************)
C15_TokenCoversMarginedSize ==
    Sized =>
        \A i \in DOMAIN size_bytes :
            /\ BLeq(calculate_size_with_margin(size_bytes[i]), TokenBytes(size_token[i]))
            /\ size_token[i].unit = "M" =>
                  BGreater(GB(1), calculate_size_with_margin(size_bytes[i]))

(***************************************************************************)
(* C16, as claimed: for every byte size b, calculate_partition_size_bytes  *)
(* of b is the smallest whole-GB multiple that is >= b + 500 MB.           *)
(***************************************************************************)
C16_SmallestWholeGBAtLeast ==
    Sized =>
        \A i \in DOMAIN size_bytes :
            LET size_with_margin == calculate_size_with_margin(size_bytes[i])
                p == partition_size[i]
            IN  /\ p.rem = 0
                /\ BLeq(size_with_margin, p)
                /\ p.gb > 0 => BGreater(size_with_margin, GB(p.gb - 1))

(***************************************************************************)
(* C16, amended: for every byte size b, calculate_partition_size_bytes of  *)
(* b is (floor((b + 500 MB) / GB) + 1) GB, the smallest whole-GB multiple  *)
(* strictly greater than b + 500 MB.                                       *)
(***************************************************************************)
C16_SmallestWholeGBAbove ==
    Sized =>
        \A i \in DOMAIN size_bytes :
            LET size_with_margin == calculate_size_with_margin(size_bytes[i])
                p == partition_size[i]
            IN  /\ p.rem = 0
                /\ p.gb > 0
                /\ BGreater(p, size_with_margin)
                /\ BLeq(GB(p.gb - 1), size_with_margin)

\* a margined size that is a whole number of GB: the partition is one GB more
C16_Witness ==
    /\ Sized
    /\ calculate_size_with_margin(size_bytes[1]).rem = 0
    /\ partition_size[1] = BAdd(calculate_size_with_margin(size_bytes[1]), GB(1))

(***************************************************************************)
(* C17: the bytes denoted by format_size_for_diskutil's token never exceed *)
(* calculate_partition_size_bytes of the same input, and the two are equal *)
(* whenever the token's suffix is "G".                                     *)
(***************************************************************************)
C17_TokenWithinPartitionSize ==
    Sized =>
        \A i \in DOMAIN size_bytes :
            /\ BLeq(TokenBytes(size_token[i]), partition_size[i])
            /\ size_token[i].unit = "G" => TokenBytes(size_token[i]) = partition_size[i]

\* one size formatted in MB, the other in GB
C17_Witness ==
    /\ Sized
    /\ size_token[1].unit = "M"
    /\ size_token[2].unit = "G"

\* partition_disk has built its command
CmdBuilt == pc = "partition_cmd_built"

(***************************************************************************)
(* C18: the command partition_disk builds is the disk identifier and the   *)
(* table type GPT followed by exactly one (JHFS+, volume label, size       *)
(* token) triple per installer, in the order of the installer list; the    *)
(* size token is the remaining-space marker "0b" for the last installer    *)
(* and only for it, and format_size_for_diskutil(size_bytes) for every     *)
(* other installer.                                                        *)
(***************************************************************************)
C18_PartitionCommandShape ==
    CmdBuilt =>
        /\ partition_cmd.argv = <<"diskutil", "partitionDisk", target_disk, "GPT">>
        /\ Len(partition_cmd.partitions) = Len(installers)
        /\ \A i \in DOMAIN installers :
              LET triple == partition_cmd.partitions[i]
              IN  /\ triple.fs = "JHFS+"
                  /\ triple.volume = installers[i].volume
                  /\ (triple.size = RemainingSpace) <=> (i = Len(installers))
                  /\ i < Len(installers) =>
                        triple.size = format_size_for_diskutil(installers[i].size_bytes)

\* a command for three installers, the first sized in MB and the second in GB
C18_Witness ==
    /\ CmdBuilt
    /\ Len(installers) = 3
    /\ partition_cmd.partitions[1].size.unit = "M"
    /\ partition_cmd.partitions[2].size.unit = "G"

(***************************************************************************)
(* C19: with a 500 GB disk and installers of 12 GB then 14 GB,             *)
(* format_size_for_diskutil yields "13G" for 12 GB and "15G" for 14 GB,    *)
(* the command carries "13G" for the first installer and the               *)
(* remaining-space marker for the second, and validation passes.           *)
(***************************************************************************)
Scenario500GB ==
    /\ Len(installers) = 2
    /\ installers[1].size_bytes = GB(12)
    /\ installers[2].size_bytes = GB(14)
    /\ disk_total = GB(500)
    /\ disk_total_valid

C19_Scenario13GThenRemaining ==
    Scenario500GB =>
        /\ (Validated /\ TotalSizeKnown) => validation.result = "return"
        /\ CmdBuilt =>
              /\ partition_cmd.partitions[1].size = [n |-> 13, unit |-> "G"]
              /\ partition_cmd.partitions[2].size = RemainingSpace
              /\ format_size_for_diskutil(installers[1].size_bytes) = [n |-> 13, unit |-> "G"]
              /\ format_size_for_diskutil(installers[2].size_bytes) = [n |-> 15, unit |-> "G"]

\* the scenario, validated and its command built
C19_Witness ==
    /\ Scenario500GB
    /\ TotalSizeKnown
    /\ validation.result = "return"
    /\ CmdBuilt
    /\ partition_cmd.partitions[1].size.n = 13

(***************************************************************************)
(* C20: within one monitored operation, whatever the interleaving of the   *)
(* clock's advance and of rule matches, the percent shown by the progress  *)
(* monitor never decreases from one frame to the next and every frame's    *)
(* percent lies in 0..100.                                                 *)
(***************************************************************************)
C20_ShownPercentMonotone ==
    [][ /\ shown # NoFrame => shown'.percent >= shown.percent
        /\ shown' # NoFrame => shown'.percent \in 0..100 ]_vars

\* a frame ahead of the stored percent through the clock, after a rule matched
C20_Witness ==
    /\ shown # NoFrame
    /\ progress_percent > 0
    /\ shown.percent > progress_percent
    /\ shown.percent < 90

(***************************************************************************)
(* C21: a rule match whose percent is lower than the monitor's current     *)
(* percent changes neither the percent nor the status message; the stored     *)
(* percent and message become a rule's values only when that rule's        *)
(* percent is >= the current percent.                                      *)
(***************************************************************************)
C21_LowerRuleChangesNothing ==
    [][ \A rule \in progress_rules :
          (progress_message' = rule.message /\ progress_message # rule.message) =>
              /\ rule.percent >= progress_percent
              /\ progress_percent' = rule.percent ]_vars

(***************************************************************************)
(* Exit statuses: what the properties below read                           *)
(***************************************************************************)
\* the operator interrupted the run
Interrupted == \E i \in DOMAIN events : events[i].ev = "interrupt"

\* the operator declined the safety prompt or the erasure confirmation
Declined ==
    \/ HasKV("prompt", "verify_disk_safety", 0, 0)
    \/ HasKV("prompt", "confirm_disk_erasure", 0, 0)

\* every installer was written and verified
AllWritten ==
    /\ installers # <<>>
    /\ \A k \in 1..Len(installers) : HasK("written", "installer", k)

(***************************************************************************)
(* C22: a run of main ends with exit status 0 exactly when all installers  *)
(* were written and verified or the operator declined a confirmation, with *)
(* 130 exactly when it was interrupted, and with 1 for every handled       *)
(* failure.                                                                *)
(***************************************************************************)
C22_ExitStatusByOutcome ==
    Exited =>
        /\ exit_status \in {0, 1, 130}
        /\ exit_status = 0 <=> ((AllWritten /\ ~Interrupted) \/ Declined)
        /\ exit_status = 130 <=> Interrupted
        /\ (exc \in Failures /\ ~Interrupted) => exit_status = 1

\* Position in TARGET_OS of the catalog entry an InstallerInfo was made for
CatalogIndex(info) == CHOOSE k \in DOMAIN TARGET_OS : TARGET_OS[k].name = info.name

(***************************************************************************)
(* C23: find_installers returns its entries in catalog order (the order of *)
(* TARGET_OS) with at most one entry per catalog entry, whatever the order *)
(* in which the directory lists its bundles; a catalog entry with no       *)
(* matching bundle is skipped, and the scan goes on without error.         *)
(***************************************************************************)
C23_CatalogOrder ==
    /\ \A i, j \in DOMAIN found :
          i < j => CatalogIndex(found[i]) < CatalogIndex(found[j])
    /\ \A i \in DOMAIN found :
          /\ candidates(TARGET_OS[CatalogIndex(found[i])].keyword) # <<>>
          /\ found[i].volume = TARGET_OS[CatalogIndex(found[i])].volume
    /\ pc = "find_installers_returned" =>
          \A k \in DOMAIN TARGET_OS :
             (candidates(TARGET_OS[k].keyword) = <<>>) =>
                 \A i \in DOMAIN found : CatalogIndex(found[i]) # k

\* a directory listed against the catalog's order, one catalog entry without
\* a bundle, two entries returned
C23_Witness ==
    /\ pc = "find_installers_returned"
    /\ app_dir = <<"Install macOS Sierra.app", "Install macOS Sonoma.app">>
    /\ Len(found) = 2
    /\ found[1].name = "macOS Sonoma"

\* unmount_disk, called by main, met failure text r and raised (v = 1) or
\* returned (v = 0)
UnmountFailed(r, v) == HasKV("unmount_failed", r, 0, v)

\* after unmount_disk returned to main, main stands at or beyond
\* partitioning_started = True unless the operator interrupted it there
WentOnToPartitioning ==
    pc = "partitioning_started" \/ partitioning_started \/ Interrupted

(***************************************************************************)
(* C24, as claimed: when the unmount command fails, unmount_disk raises a  *)
(* fatal CommandError only if the failure text matches "in use by          *)
(* process"; for every other failure text it returns normally and main     *)
(* goes on to partitioning.                                                *)
(***************************************************************************)
C24_FatalOnlyWhenInUse ==
    \A r \in UnmountFailures :
        /\ UnmountFailed(r, 1) => r = "in_use_by_process"
        /\ (r # "in_use_by_process" /\ HasK("unmount_failed", r, 0)) =>
              (UnmountFailed(r, 0) /\ WentOnToPartitioning)

(***************************************************************************)
(* C24, amended: when the unmount command fails, unmount_disk raises a     *)
(* fatal CommandError exactly when the failure text contains "in use by    *)
(* process" or "Couldn't unmount"; for every other failure text it returns *)
(* normally and main goes on to partitioning.                              *)
(***************************************************************************)
C24_FatalWhenInUseOrCouldntUnmount ==
    \A r \in UnmountFailures :
        /\ UnmountFailed(r, 1) <=>
              (HasK("unmount_failed", r, 0) /\ r \in {"in_use_by_process", "couldnt_unmount"})
        /\ UnmountFailed(r, 0) => WentOnToPartitioning

\* "Couldn't unmount" was fatal: the run ended with status 1, nothing
\* partitioned
C24_Witness ==
    /\ UnmountFailed("couldnt_unmount", 1)
    /\ Exited
    /\ exit_status = 1
    /\ ~partitioning_started

\* ---------------------------------------------------------------------------
\* Capture of the tool's output and use of the terminal (CommandSpec)
\* ---------------------------------------------------------------------------

\* read_remaining_output has returned
Drained == pc \in {"check_returncode", "returned"} \/ exc = "CommandError"

Captured(n) == \E i \in DOMAIN output_lines : output_lines[i].n = n

\* C25: once the process has been waited on and read_remaining_output has
\* returned, output_lines holds every line the process emitted, whatever the
\* output thread was doing.
C25_NoTrailingLineLost ==
    Drained => \A n \in 1..Len(tool_output) : Captured(n)

InEmissionOrder(lines) ==
    \A i, j \in DOMAIN lines : i < j => lines[i].n < lines[j].n

\* C26: the lines of output_lines are in the order the tool emitted them with
\* no line twice, and every line of output_lines that came from the final
\* drain or the output thread reaches the rule matcher in that order too.
C26_LinesInEmissionOrder ==
    /\ InEmissionOrder(output_lines)
    /\ InEmissionOrder(parsed)
    /\ (pc \in {"returned", "handled"} /\ reader_pc = "ended" /\ exc # "OSError")
          => parsed = output_lines

\* C27: every write to the terminal made while the animation thread is alive
\* is made by a thread that holds _stdout_lock, and never while another thread
\* is inside its own locked write.
C27_TerminalSerialized ==
    \A w \in writes : (w.alive => w.locked) /\ ~w.during

\* ---------------------------------------------------------------------------
\* One external command at a time (Spec)
\* ---------------------------------------------------------------------------

\* The events this step adds to the history
NewEvents == SubSeq(events', Len(events) + 1, Len(events'))

Dispatches == \E i \in DOMAIN NewEvents : NewEvents[i].ev = "dispatch"

\* C28: an external command (partitionDisk, createinstallmedia, and the
\* unmountDisk and eraseDisk of restore_disk) is dispatched only when no
\* command dispatched before is still running, so at most one runs at a time.
C28_OneCommandAtATime ==
    [][(Dispatches => running = {}) /\ Cardinality(running') <= 1]_vars

\* ---------------------------------------------------------------------------
\* restore_disk: unmount, then erase (Spec)
\* ---------------------------------------------------------------------------

RestoreEnded == Has("return", "restore_disk") \/ Has("raise", "restore_disk")

RestoreUnmountIssued == HasK("dispatch", "unmountDisk", 1)

\* restore_disk has reached run_command_with_progress(restore_cmd, ...)
EraseIssued == HasK("dispatch", "eraseDisk", 1) \/ HasK("start_failed", "eraseDisk", 1)

UnmountBeforeErase ==
    \A i \in DOMAIN events :
       (events[i].what = "eraseDisk" /\ events[i].ev \in {"dispatch", "start_failed"})
          => \E j \in 1..(i - 1) : events[j] = Ev("dispatch", "unmountDisk", 1, 0)

\* unmount_disk, called by restore_disk, returned normally
RestoreUnmountReturned ==
    \/ HasKV("exit", "unmountDisk", 1, 0)
    \/ \E r \in UnmountFailures : HasKV("unmount_failed", r, 1, 0)

\* C29, as claimed: every restore_disk that has ended has issued the unmount
\* command and after it the erase command.
C29_RestoreUnmountsThenErases ==
    RestoreEnded => RestoreUnmountIssued /\ EraseIssued /\ UnmountBeforeErase

\* C29, amended: every restore_disk issues the unmount command first; the
\* erase command ("diskutil eraseDisk ExFAT USB_DISK <disk>") is issued after
\* it, and only when unmount_disk returned normally; a restore_disk whose
\* unmount_disk raised ends without erasing.
C29_ErasesOnlyAfterUnmountReturned ==
    /\ UnmountBeforeErase
    /\ EraseIssued =>
          /\ RestoreUnmountReturned
          /\ restore_cmd(target_disk) =
                <<"diskutil", "eraseDisk", "ExFAT", "USB_DISK", target_disk>>
    /\ RestoreEnded => RestoreUnmountIssued /\ (EraseIssued <=> RestoreUnmountReturned)

C29_Witness ==
    /\ Has("return", "restore_disk")
    /\ HasKV("unmount_failed", "other_failure", 1, 0)
    /\ HasKV("exit", "eraseDisk", 1, 0)

\* ---------------------------------------------------------------------------
\* Messages of a failed partition command (CommandSpec)
\* ---------------------------------------------------------------------------

PrintCount(msg) == Cardinality({i \in DOMAIN events : events[i] = Printed(msg)})

\* The partition command could not be started or exited with a non-zero
\* code, and the except clause of main has printed.
PartitionFailureHandled == pc = "handled" /\ exc \in {"CommandError", "OSError"}

\* The tool wrote a line with "in use by process" or "Couldn't unmount"
OutputHasSignature == \E n \in 1..emitted : tool_output[n] = Signature

\* C30: after a failed partition command whose output carries a signature the
\* guidance has been printed exactly once and the generic failure message not
\* at all; after any other partition failure the generic message has been
\* printed exactly once; in both cases the exception that propagated is a
\* CommandError whose stderr is the whole captured output.
C30_FailurePrintedOnce ==
    PartitionFailureHandled =>
       /\ IF OutputHasSignature
          THEN /\ PrintCount("disk.partition_fail_in_use") = 1
               /\ PrintCount("disk.partition_fail") = 0
          ELSE /\ PrintCount("disk.partition_fail") = 1
               /\ PrintCount("disk.partition_fail_in_use") = 0
       /\ exc = "CommandError"
       /\ error_output = output_lines

\* ---------------------------------------------------------------------------
\* The shared progress state under the output thread and the animation
\* thread (CommandSpec)
\* ---------------------------------------------------------------------------

\* The lines handed to parse_line so far that matched a rule
Applied == {i \in DOMAIN parsed : matching_rule(parsed[i].text) # {}}

RuleOf(i) == CHOOSE rule \in matching_rule(parsed[i].text) : TRUE

MaxApplied ==
    IF Applied = {}
    THEN 0
    ELSE CHOOSE p \in {RuleOf(i).percent : i \in Applied} :
            \A i \in Applied : RuleOf(i).percent <= p

LastApplied == CHOOSE i \in Applied : \A j \in Applied : j <= i

\* C31: whatever the animation thread does between the steps of the output
\* thread, no rule update is lost: the stored percent is the maximum of the
\* percents of the rules applied so far and the stored message is that of the
\* last rule applied.
C31_NoUpdateLost ==
    /\ progress_percent = MaxApplied
    /\ progress_message = IF Applied = {} THEN Starting ELSE RuleOf(LastApplied).message

C31_Witness ==
    /\ Len(parsed) = 2
    /\ parsed[1].text = PartitionMap
    /\ parsed[2].text = Plain
    /\ progress_percent = 20
    /\ \E w \in writes : w.by = "show_progress"

\* ---------------------------------------------------------------------------
\* The animation after ProgressBar.stop (CommandSpec)
\* ---------------------------------------------------------------------------

\* progress_bar.stop() (partitioning.py:158) has returned
StopReturned ==
    \/ pc \in {"read_remaining_output", "check_returncode", "returned"}
    \/ pc \in {"except", "handled"} /\ exc = "CommandError"

\* C32: once stop() has returned the animation thread has ended, so it writes
\* nothing more to the terminal and the blanked line stays blank.
C32_NoWriteAfterStop == StopReturned => anim_pc = "ended"

\* ---------------------------------------------------------------------------
\* Termination (LiveSpec)
\* ---------------------------------------------------------------------------

\* C33: when every dispatched command exits and every prompt is answered,
\* every run of main ends with an exit status: the volume wait ends at its
\* timeout and a failed verification is retried once.
C33_Terminates == <>(pc = "exited")

C33_Witness ==
    /\ pc = "exited"
    /\ exit_status = 1
    /\ HasKV("verify", "first", 1, 0)
    /\ HasKV("verify", "retry", 1, 0)
    /\ HasKV("wait_for_volume", "volume", 1, 1)

\* ---------------------------------------------------------------------------
\* No restore before partitioning has begun (Spec)
\* ---------------------------------------------------------------------------

\* C34: restore_disk is called only when partitioning_started is true and a
\* target disk is set; a run that fails or is interrupted before that point
\* (discovery, disk listing or selection, safety check, space check, declined
\* confirmation, fatal unmount failure) never calls it.
C34_RestoreOnlyAfterPartitioningBegan ==
    RestoreInvoked => partitioning_started /\ target_disk # "None"

C34_Witness ==
    /\ pc = "exited"
    /\ exit_status = 1
    /\ HasKV("unmount_failed", "in_use_by_process", 0, 1)
    /\ target_disk # "None"
    /\ ~partitioning_started
    /\ ~RestoreInvoked

\* ---------------------------------------------------------------------------
\* Nothing is done to the disk before the erasure is confirmed (Spec)
\* ---------------------------------------------------------------------------

\* An unmount, partition, erase or media-write command is issued
ModifiesDisk(i) ==
    /\ events[i].ev \in {"dispatch", "start_failed"}
    /\ events[i].what \in {"unmountDisk", "partitionDisk", "eraseDisk", "createinstallmedia"}

\* C35: every unmount, partition, erase and media-write command comes after
\* the answer "YES" to the erasure confirmation; after any other answer the
\* run has ended with exit status 0 and no such command was issued.
C35_NothingBeforeYes ==
    /\ \A i \in DOMAIN events :
          ModifiesDisk(i) =>
             \E j \in 1..(i - 1) : events[j] = Ev("prompt", "confirm_disk_erasure", 0, 1)
    /\ HasKV("prompt", "confirm_disk_erasure", 0, 0) =>
          /\ pc = "exited"
          /\ exit_status = 0
          /\ \A i \in DOMAIN events : ~ModifiesDisk(i)

C35_Witness ==
    /\ HasKV("prompt", "confirm_disk_erasure", 0, 0)
    /\ pc = "exited"
    /\ target_disk # "None"

\* ---------------------------------------------------------------------------
\* Every animation is stopped (CommandSpec)
\* ---------------------------------------------------------------------------

\* Control has left partition_disk, by return or by an exception
LeftOperation == pc \in {"returned", "except", "handled"}

\* C36: on every path out of the operation that started it (success, non-zero
\* exit, command that cannot be started, interrupt during the wait) the
\* animation has been told to stop.
C36_AnimationStopped == LeftOperation => ~animation_running

\* ---------------------------------------------------------------------------
\* One bundle, one catalog entry (FinderSpec)
\* ---------------------------------------------------------------------------

\* C37: the entries find_installers returns have pairwise distinct paths,
\* whatever bundles the directory holds.
C37_DistinctPaths ==
    pc = "find_installers_returned" =>
       \A i, j \in DOMAIN found : i # j => found[i].path # found[j].path

\* ---------------------------------------------------------------------------
\* The diagnostic of a failed verification (Spec)
\* ---------------------------------------------------------------------------

FailedPrints(k) ==
    {i \in DOMAIN events :
        events[i].ev = "print" /\ events[i].what = "install_media.error_for_installer"
           /\ events[i].k = k}

\* C38: when the verification of installer k and its retry have both failed
\* and create_install_media has raised, the diagnostic naming the installer
\* has been printed exactly once and the InstallationError carries the
\* "installation seems to have failed" message.
C38_FailureReportedOnce ==
    \A k \in DOMAIN installers :
       (HasKV("verify", "retry", k, 0) /\ HasK("raise", "InstallationError", k)) =>
          /\ Cardinality(FailedPrints(k)) = 1
          /\ HasKV("raise", "InstallationError", k, 0)

====
